---- MODULE Spec2Model ----
(***************************************************************************)
(* youlab-sync: the bidirectional file synchronisation daemon.             *)
(*                                                                         *)
(*   Manager  (package sync)     FullSync, syncFile, uploadFile, ...       *)
(*   Watcher  (package watcher)  handleFSEvent, debounceEvent, timers      *)
(*   runWatch (package cmd)      initial sync, event worker, periodic sync *)
(*                                                                         *)
(* Paths and patterns are sequences of symbols ("/" is the separator), file *)
(* contents are sequences of byte values, times are ticks of one clock.    *)
(***************************************************************************)
EXTENDS Integers, Sequences, FiniteSets, TLC

(***************************************************************************)
(* Bounds of the model.                                                    *)
(***************************************************************************)
\* The clock runs from 0 to MaxTime.
MaxTime == 1
\* Changes made from outside the daemon (the user, the remote agent).
MaxEdits == 2
\* Transport calls that may fail.
MaxFaults == 1

(***************************************************************************)
(* Paths, patterns, contents.                                              *)
(***************************************************************************)
Sep == "/"

\* filepath.Join(localPath, ".youlab-sync", "index.json"), relative to root
SyncDir == <<".youlab-sync">>
IndexPath == <<".youlab-sync", Sep, "index.json">>

PathNotes == <<"notes", ".md">>
PathTmp == <<"draft", ".tmp">>
PathGit == <<".git", Sep, "config">>

Paths == {PathNotes, PathTmp, PathGit, IndexPath}

\* cfg.Ignore, as in the end-to-end scenarios: [".git", "*.tmp"]
IgnorePatterns == << <<".git">>, <<"*", ".tmp">> >>

\* "h", "S", "" and a buffer holding a NUL byte
TextH == <<104>>
TextS == <<83>>
Empty == <<>>
Binary == <<0>>
\* what json.MarshalIndent writes starts with "{" and a newline
IndexJSON == <<123, 10>>

Contents == {TextH, TextS, Empty, Binary}

(***************************************************************************)
(* Pure functions.                                                         *)
(***************************************************************************)
Min(a, b) == IF a < b THEN a ELSE b

\* strings.HasPrefix
HasPrefix(s, prefix) ==
    /\ Len(s) >= Len(prefix)
    /\ SubSeq(s, 1, Len(prefix)) = prefix

\* strings.Split(path, string(filepath.Separator))
RECURSIVE SplitFrom(_, _, _)
SplitFrom(path, i, cur) ==
    IF i > Len(path) THEN <<cur>>
    ELSE IF path[i] = Sep THEN <<cur>> \o SplitFrom(path, i + 1, <<>>)
    ELSE SplitFrom(path, i + 1, Append(cur, path[i]))

Split(path) == SplitFrom(path, 1, <<>>)

\* filepath.Base
Base(path) == LET parts == Split(path) IN parts[Len(parts)]

\* filepath.Match for literal symbols and "*" (any run of non-separators)
RECURSIVE Match(_, _)
Match(pattern, name) ==
    IF pattern = <<>> THEN name = <<>>
    ELSE IF Head(pattern) = "*"
        THEN \E k \in 0..Len(name) :
                /\ \A j \in 1..k : name[j] # Sep
                /\ Match(Tail(pattern), SubSeq(name, k + 1, Len(name)))
        ELSE /\ name # <<>>
             /\ Head(name) = Head(pattern)
             /\ Match(Tail(pattern), Tail(name))

\* Manager.shouldIgnore and Watcher.shouldIgnore (the same code twice)
shouldIgnore(path) ==
    LET parts == Split(path) IN
    \E k \in 1..Len(IgnorePatterns) :
        \/ \E n \in 1..Len(parts) : Match(IgnorePatterns[k], parts[n])
        \/ Match(IgnorePatterns[k], Base(path))

\* calculateHash: SHA-256 as an injective digest of the content
calculateHash(content) == [sha256 |-> content]

BinaryCheckLen == 1024

\* an isBinaryFile that looks at the whole buffer
IsBinaryWholeBuffer(content) ==
    IF Len(content) = 0 THEN FALSE
    ELSE LET checkLen == Len(content)
             nonPrintable == Cardinality({i \in 1..checkLen :
                                 /\ content[i] < 32
                                 /\ content[i] # 9
                                 /\ content[i] # 10
                                 /\ content[i] # 13})
         IN \/ \E i \in 1..checkLen : content[i] = 0
            \/ 10 * nonPrintable > 3 * checkLen

\* isBinaryFile.  float64(nonPrintable)/float64(checkLen) > 0.3 is 10 * nonPrintable >
\* 3 * checkLen: the quotient of two integers up to 1024 that equals 3/10 rounds to the
\* double the literal 0.3 denotes, and no other quotient is that close to it
isBinaryFile(content) ==
    IF Len(content) = 0 THEN FALSE
    ELSE LET checkLen == Min(Len(content), BinaryCheckLen)
             nonPrintable == Cardinality({i \in 1..checkLen :
                                 /\ content[i] < 32
                                 /\ content[i] # 9
                                 /\ content[i] # 10
                                 /\ content[i] # 13})
         IN \/ \E i \in 1..checkLen : content[i] = 0
            \/ 10 * nonPrintable > 3 * checkLen

(***************************************************************************)
(* Go maps as functions with a finite domain.                              *)
(***************************************************************************)
EmptyMap == [p \in {} |-> <<>>]
Put(m, k, v) == [q \in DOMAIN m \cup {k} |-> IF q = k THEN v ELSE m[q]]
Del(m, k) == [q \in DOMAIN m \ {k} |-> m[q]]
\* a nil-able pointer: <<>> is nil, <<v>> points to v
Lookup(m, k) == IF k \in DOMAIN m THEN <<m[k]>> ELSE <<>>


(***************************************************************************)
(* State.                                                                  *)
(***************************************************************************)
VARIABLES
    now,        \* the clock
    local,      \* files under the local root: path -> [content, mtime]
    remote,     \* the workspace on the server: path -> [content, hash, size, modified]
    index,      \* Manager.index.Files: path -> FileState
    lastSync,   \* Manager.index.LastSync
    diskIndex,  \* what index.json holds: <<>> or <<document>>
    pass,       \* the FullSync call in progress
    passes,     \* FullSync calls started so far
    phase,      \* runWatch: "initial-syncing", then "running"
    watchEnabled, \* cfg.Watch.Enabled
    rawq,       \* Watcher.fsWatcher.Events: the notifications not yet read
    handling,   \* handleFSEvent: the Event built, debounceEvent not yet entered
    pending,    \* Watcher.pendingEvents: path -> timer
    timers,     \* the time.AfterFunc timers that can still run their callback
    events,     \* Watcher.events: the buffered channel
    edits,      \* changes made from outside so far
    faults,     \* transport failures so far
    header,     \* Manager.index.Version and Manager.index.UserID
    saving,     \* the saveIndex call in progress: <<>> or <<[data, prior]>>
    watcher,    \* Watcher: stopCh, doneCh, the events and errors channels, Stop calls
    daemon,     \* runWatch: cfg.Sync, the signal channel, the channel of the sync ticker
    obs         \* what the daemon did last (history, read by the properties)

vars == <<now, local, remote, index, lastSync, diskIndex, pass, passes, phase,
          watchEnabled, rawq, handling, pending, timers, events, edits, faults,
          header, saving, watcher, daemon, obs>>

(***************************************************************************)
(* The server (Remote Transport contract).                                 *)
(***************************************************************************)
\* what the server stores for a PutFile, and echoes as FileMetadata
ServerEntry(content, t) ==
    [content |-> content, hash |-> calculateHash(content),
     size |-> Len(content), modified |-> t]

\* Client.ListFiles: WorkspaceIndex.Files
ListFiles(store) ==
    [p \in DOMAIN store |->
        [hash |-> store[p].hash, size |-> store[p].size, modified |-> store[p].modified]]

(***************************************************************************)
(* A call on the Manager works on a record w of what it reads and writes:  *)
(*   local, remote, index  the three stores                                *)
(*   ops    the transport calls and file operations issued                 *)
(*   notes  the file-system notifications its writes cause                 *)
(*   err    "none", "io" (a local file error) or "net" (a transport error) *)
(***************************************************************************)
World == [local |-> local, remote |-> remote, index |-> index,
          ops |-> {}, notes |-> <<>>, err |-> "none"]

Op(name, path, content) == [op |-> name, path |-> path, content |-> content]

Issue(w, name, path, content) == [w EXCEPT !.ops = @ \cup {Op(name, path, content)}]

Fail(w, kind) == [w EXCEPT !.err = kind]

updateIndex(w, path, hash, size, modified, source) ==
    [Issue(w, "UpdateIndex", path, <<>>) EXCEPT
        !.index = Put(@, path, [hash |-> hash, size |-> size, modified |-> modified,
                                source |-> source, synced_at |-> now])]

\* removeFromIndex that drops every entry of the index, not the one of its path
ClearIndex(w, path) ==
    [Issue(w, "RemoveIndex", path, <<>>) EXCEPT !.index = EmptyMap]

removeFromIndex(w, path) ==
    [Issue(w, "RemoveIndex", path, <<>>) EXCEPT !.index = Del(@, path)]

(***************************************************************************)
(* The index file.  A document is a record of the four fields of SyncIndex *)
(* with two marks: whole (FALSE when the text is cut off and is not a JSON *)
(* document) and bad (the fields whose JSON value has the wrong type).     *)
(***************************************************************************)
\* the SyncIndex NewManager builds before loadIndex
NewIndex == [version |-> 1, user_id |-> "", last_sync |-> 0, files |-> EmptyMap]

\* json.MarshalIndent(m.index, "", "  ")
Marshal(idx) ==
    [whole |-> TRUE, bad |-> {}, version |-> idx.version, user_id |-> idx.user_id,
     last_sync |-> idx.last_sync, files |-> idx.files]

\* json.Unmarshal(data, m.index): a text that is not a document changes nothing; in a
\* document every field of the right type is stored and a field of the wrong type is
\* skipped, and the error for it is returned at the end
Unmarshal(data, idx) ==
    IF ~data.whole THEN [index |-> idx, err |-> TRUE]
    ELSE [index |-> [f \in DOMAIN idx |-> IF f \in data.bad THEN idx[f] ELSE data[f]],
          err |-> data.bad # {}]

\* Manager.loadIndex on the file disk holds (<<>>: no file)
loadIndex(disk, idx) ==
    IF disk = <<>> THEN [index |-> idx, err |-> FALSE]
    ELSE Unmarshal(disk[1], idx)

\* os.WriteFile after it opened the file with O_TRUNC and before it wrote
Truncated == [Marshal(NewIndex) EXCEPT !.whole = FALSE]

\* time.Time.IsZero: GetFile leaves Modified zero when the header is missing
IsZero(t) == t < 0

\* uploadFile without its two skips
UploadAnything(w, relPath, net) ==
    IF relPath \notin DOMAIN w.local THEN Fail(w, "io")
    ELSE LET content == w.local[relPath].content
             w1 == Issue(w, "PutFile", relPath, content)
         IN IF ~net THEN Fail(w1, "net")
            ELSE LET metadata == ServerEntry(content, now)
                     w2 == [w1 EXCEPT !.remote = Put(@, relPath, metadata)]
                 IN updateIndex(w2, relPath, metadata.hash, metadata.size,
                                w.local[relPath].mtime, "local")

\* uploadFile that writes the index entry before PutFile has answered
UploadIndexesFirst(w, relPath, net) ==
    IF relPath \notin DOMAIN w.local THEN Fail(w, "io")
    ELSE LET content == w.local[relPath].content IN
         IF Len(content) = 0 THEN w
         ELSE IF isBinaryFile(content) THEN w
         ELSE LET metadata == ServerEntry(content, now)
                  w1 == updateIndex(Issue(w, "PutFile", relPath, content), relPath,
                                    metadata.hash, metadata.size,
                                    w.local[relPath].mtime, "local")
              IN IF ~net THEN Fail(w1, "net")
                 ELSE [w1 EXCEPT !.remote = Put(@, relPath, metadata)]

\* uploadFile that indexes the size of the path instead of the size the server echoed
UploadIndexesPathLength(w, relPath, net) ==
    IF relPath \notin DOMAIN w.local THEN Fail(w, "io")
    ELSE LET content == w.local[relPath].content IN
         IF Len(content) = 0 THEN w
         ELSE IF isBinaryFile(content) THEN w
         ELSE LET w1 == Issue(w, "PutFile", relPath, content) IN
              IF ~net THEN Fail(w1, "net")
              ELSE LET metadata == ServerEntry(content, now)
                       w2 == [w1 EXCEPT !.remote = Put(@, relPath, metadata)]
                   IN updateIndex(w2, relPath, metadata.hash, Len(relPath) + metadata.size,
                                  w.local[relPath].mtime, "local")

uploadFile(w, relPath, net) ==
    IF relPath \notin DOMAIN w.local THEN Fail(w, "io")
    ELSE LET content == w.local[relPath].content IN
         IF Len(content) = 0 THEN w
         ELSE IF isBinaryFile(content) THEN w
         ELSE LET w1 == Issue(w, "PutFile", relPath, content) IN
              IF ~net THEN Fail(w1, "net")
              ELSE LET metadata == ServerEntry(content, now)
                       w2 == [w1 EXCEPT !.remote = Put(@, relPath, metadata)]
                   IN updateIndex(w2, relPath, metadata.hash, metadata.size,
                                  w.local[relPath].mtime, "local")

deleteLocalFile(w, relPath) ==
    LET w1 == IF relPath \in DOMAIN w.local
              THEN [Issue(w, "RemoveLocal", relPath, <<>>) EXCEPT
                       !.local = Del(@, relPath),
                       !.notes = Append(@, [name |-> relPath, op |-> "Remove"])]
              ELSE w
    IN removeFromIndex(w1, relPath)

\* downloadFile without its os.Chtimes: the file keeps the time it was written
DownloadKeepsWriteTime(w, relPath, net) ==
    LET w1 == Issue(w, "GetFile", relPath, <<>>) IN
    IF ~net THEN Fail(w1, "net")
    ELSE IF relPath \notin DOMAIN w.remote THEN deleteLocalFile(w1, relPath)
    ELSE LET metadata == w.remote[relPath]
             content == metadata.content
             w2 == [Issue(w1, "WriteLocal", relPath, content) EXCEPT
                       !.local = Put(@, relPath, [content |-> content, mtime |-> now]),
                       !.notes = Append(@, [name |-> relPath,
                                            op |-> IF relPath \in DOMAIN w.local
                                                   THEN "Write" ELSE "Create"])]
         IN updateIndex(w2, relPath, metadata.hash, Len(content),
                        metadata.modified, "remote")

downloadFile(w, relPath, net) ==
    LET w1 == Issue(w, "GetFile", relPath, <<>>) IN
    IF ~net THEN Fail(w1, "net")
    ELSE IF relPath \notin DOMAIN w.remote THEN deleteLocalFile(w1, relPath)
    ELSE LET metadata == w.remote[relPath]
             content == metadata.content
             mtime == IF IsZero(metadata.modified) THEN now ELSE metadata.modified
             w2 == [Issue(w1, "WriteLocal", relPath, content) EXCEPT
                       !.local = Put(@, relPath, [content |-> content, mtime |-> mtime]),
                       !.notes = Append(@, [name |-> relPath,
                                            op |-> IF relPath \in DOMAIN w.local
                                                   THEN "Write" ELSE "Create"])]
         IN updateIndex(w2, relPath, metadata.hash, Len(content),
                        metadata.modified, "remote")

deleteRemoteFile(w, relPath, net) ==
    LET w1 == Issue(w, "DeleteFile", relPath, <<>>) IN
    IF ~net THEN Fail(w1, "net")
    ELSE removeFromIndex([w1 EXCEPT !.remote = Del(@, relPath)], relPath)

(***************************************************************************)
(* scanLocalFiles: the files of the tree that are outside the sync         *)
(* directory, not ignored, and not binary.  A directory that is skipped    *)
(* takes its files with it: their paths have the same prefix or component. *)
(***************************************************************************)
\* filepath.Clean on the components of a path: "." and empty components go, ".." takes
\* the component before it away, or stays when there is none
RECURSIVE CleanParts(_, _)
CleanParts(parts, acc) ==
    IF parts = <<>> THEN acc
    ELSE LET part == Head(parts) IN
         IF part = <<>> \/ part = <<".">> THEN CleanParts(Tail(parts), acc)
         ELSE IF part = <<"..">> /\ acc # <<>> /\ acc[Len(acc)] # <<"..">>
         THEN CleanParts(Tail(parts), SubSeq(acc, 1, Len(acc) - 1))
         ELSE CleanParts(Tail(parts), Append(acc, part))

\* filepath.Join(m.localPath, relPath) is the root or a path below it
Inside(relPath) ==
    LET cleaned == CleanParts(Split(relPath), <<>>) IN
    cleaned = <<>> \/ cleaned[1] # <<"..">>

\* filepath.WalkDir(m.localPath) reports what is below the root
scanLocalFiles(fs) ==
    [p \in {q \in DOMAIN fs : /\ Inside(q)
                              /\ ~HasPrefix(q, SyncDir)
                              /\ ~shouldIgnore(q)
                              /\ ~isBinaryFile(fs[q].content)} |->
        [hash |-> calculateHash(fs[p].content), size |-> Len(fs[p].content),
         modified |-> fs[p].mtime, source |-> "local"]]

(***************************************************************************)
(* syncFile: the decision, then the call it makes.  remote, lcl and        *)
(* indexed are nil-able pointers.                                          *)
(***************************************************************************)
\* syncFile resolving a tie of timestamps for the remote side
SyncFilePrefersRemote(rem, lcl, indexed) ==
    IF rem # <<>> /\ lcl # <<>> THEN
        IF lcl[1].hash = rem[1].hash THEN "index-both"
        ELSE IF lcl[1].modified > rem[1].modified THEN "upload"
        ELSE "download"
    ELSE IF rem # <<>> /\ lcl = <<>> THEN
        IF indexed # <<>> THEN "delete-remote" ELSE "download"
    ELSE IF rem = <<>> /\ lcl # <<>> THEN
        IF indexed # <<>> THEN "delete-local" ELSE "upload"
    ELSE "clean-index"

\* syncFile that does not consult the index: an absence is never a deletion
SyncFileForgetsIndex(rem, lcl, indexed) ==
    IF rem # <<>> /\ lcl # <<>> THEN
        IF lcl[1].hash = rem[1].hash THEN "index-both"
        ELSE IF lcl[1].modified > rem[1].modified THEN "upload"
        ELSE IF rem[1].modified > lcl[1].modified THEN "download"
        ELSE "upload"
    ELSE IF rem # <<>> /\ lcl = <<>> THEN "download"
    ELSE IF rem = <<>> /\ lcl # <<>> THEN "upload"
    ELSE "clean-index"

\* syncFile that lets the later modification time decide before it compares the hashes
SyncFileTimeFirst(rem, lcl, indexed) ==
    IF rem # <<>> /\ lcl # <<>> THEN
        IF lcl[1].modified > rem[1].modified THEN "upload"
        ELSE IF rem[1].modified > lcl[1].modified THEN "download"
        ELSE IF lcl[1].hash = rem[1].hash THEN "index-both"
        ELSE "upload"
    ELSE IF rem # <<>> /\ lcl = <<>> THEN
        IF indexed # <<>> THEN "delete-remote" ELSE "download"
    ELSE IF rem = <<>> /\ lcl # <<>> THEN
        IF indexed # <<>> THEN "delete-local" ELSE "upload"
    ELSE "clean-index"

\* syncFile that compares sizes where it should compare hashes
SyncFileComparesSize(rem, lcl, indexed) ==
    IF rem # <<>> /\ lcl # <<>> THEN
        IF lcl[1].size = rem[1].size THEN "index-both"
        ELSE IF lcl[1].modified > rem[1].modified THEN "upload"
        ELSE IF rem[1].modified > lcl[1].modified THEN "download"
        ELSE "upload"
    ELSE IF rem # <<>> /\ lcl = <<>> THEN
        IF indexed # <<>> THEN "delete-remote" ELSE "download"
    ELSE IF rem = <<>> /\ lcl # <<>> THEN
        IF indexed # <<>> THEN "delete-local" ELSE "upload"
    ELSE "clean-index"

syncFileAction(rem, lcl, indexed) ==
    IF rem # <<>> /\ lcl # <<>> THEN
        IF lcl[1].hash = rem[1].hash THEN "index-both"
        ELSE IF lcl[1].modified > rem[1].modified THEN "upload"
        ELSE IF rem[1].modified > lcl[1].modified THEN "download"
        ELSE "upload"
    ELSE IF rem # <<>> /\ lcl = <<>> THEN
        IF indexed # <<>> THEN "delete-remote" ELSE "download"
    ELSE IF rem = <<>> /\ lcl # <<>> THEN
        IF indexed # <<>> THEN "delete-local" ELSE "upload"
    ELSE "clean-index"

syncFile(w, path, rem, lcl, indexed, net) ==
    LET action == syncFileAction(rem, lcl, indexed) IN
    CASE action = "index-both" ->
            updateIndex(w, path, lcl[1].hash, lcl[1].size, lcl[1].modified, "both")
      [] action = "upload" -> uploadFile(w, path, net)
      [] action = "download" -> downloadFile(w, path, net)
      [] action = "delete-remote" -> deleteRemoteFile(w, path, net)
      [] action = "delete-local" -> deleteLocalFile(w, path)
      [] action = "clean-index" -> removeFromIndex(w, path)


\* Manager.HandleLocalChange
HandleLocalChange(w, event, net) ==
    CASE event.op \in {"create", "write"} -> uploadFile(w, event.path, net)
      [] event.op = "remove" -> deleteRemoteFile(w, event.path, net)
      [] OTHER -> w

(***************************************************************************)
(* The watch set.  addDirRecursive watches every directory that is not     *)
(* ignored, so a file raises notifications unless a directory above it is  *)
(* ignored.                                                                *)
(***************************************************************************)
RECURSIVE Join(_)
Join(parts) ==
    IF Len(parts) = 1 THEN parts[1]
    ELSE parts[1] \o <<Sep>> \o Join(Tail(parts))

DirWatched(path) ==
    LET parts == Split(path) IN
    \A k \in 1..(Len(parts) - 1) : ~shouldIgnore(Join(SubSeq(parts, 1, k)))

\* runWatch has started the watcher (and has not returned)
Watching == phase \in {"running", "stopping", "returning"} /\ watchEnabled

Raised(note) == Watching /\ DirWatched(note.name)

Notify(q, notes) == q \o SelectSeq(notes, Raised)

(***************************************************************************)
(* Initial state: NewManager has run on a tree without an index file.      *)
(***************************************************************************)
\* pass: pc, the locals remoteIndex and localFiles, the paths of allPaths still to
\* visit (todo) and all of them (seen)
NoPass == [pc |-> "idle", remoteIndex |-> EmptyMap, localFiles |-> EmptyMap, todo |-> {},
           seen |-> {}]

\* obs.last: the last step of the reconciler.  by: "full", "event" or "errors"; op: "list",
\* "sync", "save", "cancel" or the event's operation; rem, lcl, idx: what syncFile was given;
\* file: the local file when the step began; ops, err: what the step issued and
\* returned; had: the file the server held when the step began; after, left: the index
\* entry and the local file when it ended; served: the file the server holds when the
\* step ended (what PutFile echoed, what GetFile returned); stale: at "save", the index entries for paths that were in neither the
\* listing nor the scan of the pass
NoStep == [by |-> "none", path |-> <<>>, op |-> "", rem |-> <<>>, lcl |-> <<>>,
           idx |-> <<>>, file |-> <<>>, had |-> <<>>, ops |-> {}, err |-> "none",
           after |-> <<>>, left |-> <<>>, served |-> <<>>, stale |-> {}]

\* obs: last; passOps, the operations the pass has issued; dirty, streak, settled: whether
\* passes ran undisturbed; deleted: the synced file the user deleted last, with the
\* number of DeleteFile calls the server has answered for it since (counted up to 2)
\* user: for the paths the user has changed locally, what was done last: "created"
\* (written where no file was, while the daemon was running, and not deleted on the
\* server since), "written" or "deleted"
NoObs == [last |-> NoStep, passOps |-> {}, dirty |-> FALSE, streak |-> 0, settled |-> FALSE,
          deleted |-> <<>>, user |-> EmptyMap]

\* NewManager: Version 1, UserID unset
NewHeader == [version |-> 1, user_id |-> ""]

\* watcher.New: the channels are open and the context is live; no call of Stop runs
\* (stop) or has returned (calls), and nothing has panicked; errq: the errors in the
\* channel w.errors; dropped, errDropped: the warnings logged for an event and for an
\* error that found its channel full (counted up to 2)
NewWatcher ==
    [stopCh |-> "open", doneCh |-> "open", events |-> "open", errors |-> "open",
     ctx |-> "live", stop |-> "none", calls |-> 0, panic |-> "none",
     errq |-> 0, dropped |-> 0, errDropped |-> 0]

\* runWatch before its initial sync, with the defaults of the configuration: periodic
\* sync on; sigCh: "none", "pending" (a signal is in the channel) or "taken"; tickerC: the
\* ticks in the channel of the sync ticker, which holds one; worker: the goroutine that
\* reads the channels of the watcher, "none", "running" or "returned"
NewDaemon ==
    [bidirectional |-> TRUE, interval |-> 30, sigCh |-> "none", tickerC |-> 0,
     worker |-> "none"]

StartTrees == {EmptyMap, [p \in {PathNotes} |-> [content |-> TextH, mtime |-> 0]]}

StartStores == {EmptyMap, [p \in {PathNotes} |-> ServerEntry(TextH, 0)]}

Init ==
    /\ now = 0
    /\ local \in StartTrees
    /\ remote \in StartStores
    /\ index = EmptyMap
    /\ lastSync = 0
    /\ diskIndex = <<>>
    /\ pass = NoPass
    /\ passes = 0
    /\ phase = "initial-syncing"
    /\ watchEnabled = TRUE
    /\ rawq = <<>>
    /\ handling = <<>>
    /\ pending = EmptyMap
    /\ timers = {}
    /\ events = <<>>
    /\ edits = 0
    /\ faults = 0
    /\ header = NewHeader
    /\ saving = <<>>
    /\ watcher = NewWatcher
    /\ daemon = NewDaemon
    /\ obs = NoObs

(***************************************************************************)
(* The world outside the daemon: the clock, the user, the remote agent.    *)
(***************************************************************************)
Tick ==
    /\ now < MaxTime
    /\ now' = now + 1
    /\ UNCHANGED <<daemon, header, saving, watcher,
                   watchEnabled, local, remote, index, lastSync, diskIndex, pass, passes, phase,
                   rawq, handling, pending, timers, events, edits, faults, obs>>

\* an edit of p from outside breaks the quiet the properties about passes assume
Disturbed(p) ==
    [obs EXCEPT !.dirty = TRUE, !.streak = 0, !.settled = FALSE,
                !.deleted = IF @ # <<>> /\ @[1].path = p THEN <<>> ELSE @]

\* the count of obs.deleted after a call that made world w: a DeleteFile for the path
\* that the server has answered is counted
Counted(w) ==
    IF /\ obs.deleted # <<>> /\ w.err = "none"
       /\ Op("DeleteFile", obs.deleted[1].path, <<>>) \in w.ops
    THEN <<[obs.deleted[1] EXCEPT !.calls = Min(@ + 1, 2)]>>
    ELSE obs.deleted

\* obs.user when the file of p has been deleted on the server
Uncreated(user, p) ==
    IF p \in DOMAIN user /\ user[p] = "created" THEN Put(user, p, "written") ELSE user

\* obs.user after a call that made world w: a DeleteFile the server has answered
Kept(w) ==
    LET gone == {o.path : o \in {x \in w.ops : x.op = "DeleteFile"}} IN
    IF w.err = "none" /\ gone # {}
    THEN [p \in DOMAIN obs.user |->
             IF p \in gone /\ obs.user[p] = "created" THEN "written" ELSE obs.user[p]]
    ELSE obs.user

EditContents(p) == IF p = PathNotes THEN Contents ELSE {TextH}

UserWrite(p, c) ==
    /\ edits < MaxEdits
    /\ edits' = edits + 1
    /\ local' = Put(local, p, [content |-> c, mtime |-> now])
    /\ rawq' = Notify(rawq, <<[name |-> p,
                               op |-> IF p \in DOMAIN local THEN "Write" ELSE "Create"]>>)
    /\ obs' = [Disturbed(p) EXCEPT
                  !.user = Put(@, p, IF \/ p \notin DOMAIN local /\ phase = "running"
                                        \/ Lookup(@, p) = <<"created">>
                                     THEN "created" ELSE "written")]
    /\ UNCHANGED <<daemon, header, saving, watcher,
                   watchEnabled, now, remote, index, lastSync, diskIndex, pass, passes, phase,
                   handling, pending, timers, events, faults>>

UserDelete(p) ==
    /\ edits < MaxEdits
    /\ p \in DOMAIN local
    /\ edits' = edits + 1
    /\ local' = Del(local, p)
    /\ rawq' = Notify(rawq, <<[name |-> p, op |-> "Remove"]>>)
    /\ obs' = [Disturbed(p) EXCEPT
                  !.deleted = IF p \in DOMAIN index /\ p \in DOMAIN remote
                              THEN <<[path |-> p, calls |-> 0]>> ELSE @,
                  !.user = Put(@, p, "deleted")]
    /\ UNCHANGED <<daemon, header, saving, watcher,
                   watchEnabled, now, remote, index, lastSync, diskIndex, pass, passes, phase,
                   handling, pending, timers, events, faults>>

RemoteWrite(p, c) ==
    /\ edits < MaxEdits
    /\ edits' = edits + 1
    /\ remote' = Put(remote, p, ServerEntry(c, now))
    /\ obs' = Disturbed(p)
    /\ UNCHANGED <<daemon, header, saving, watcher,
                   watchEnabled, now, local, index, lastSync, diskIndex, pass, passes, phase,
                   rawq, handling, pending, timers, events, faults>>

RemoteDelete(p) ==
    /\ edits < MaxEdits
    /\ p \in DOMAIN remote
    /\ edits' = edits + 1
    /\ remote' = Del(remote, p)
    /\ obs' = [Disturbed(p) EXCEPT !.user = Uncreated(@, p)]
    /\ UNCHANGED <<daemon, header, saving, watcher,
                   watchEnabled, now, local, index, lastSync, diskIndex, pass, passes, phase,
                   rawq, handling, pending, timers, events, faults>>


(***************************************************************************)
(* Manager.FullSync, one step per line of its loop.                        *)
(***************************************************************************)
MaxPasses == 3

\* a transport call may fail while failures remain in the budget
Outcomes == IF faults < MaxFaults THEN BOOLEAN ELSE {TRUE}

\* a ticker that starts a pass on every tick, whether or not one is running
MayStartPassOnEveryTick ==
    /\ passes < MaxPasses
    /\ \/ phase = "initial-syncing" /\ passes = 0
       \/ phase = "running" /\ daemon.tickerC > 0

\* runWatch: the initial pass, then one pass per tick received from the sync ticker
\* (a cancelled context ends the goroutine of the ticker)
MayStartPass ==
    /\ pass.pc = "idle"
    /\ passes < MaxPasses
    /\ \/ phase = "initial-syncing" /\ passes = 0
       \/ phase = "running" /\ daemon.tickerC > 0 /\ watcher.ctx = "live"

\* a FullSync that records the time of a pass whose listing failed
FullSyncListFailsStamped ==
    /\ MayStartPass
    /\ faults < MaxFaults
    /\ faults' = faults + 1
    /\ passes' = passes + 1
    /\ daemon' = [daemon EXCEPT !.tickerC = 0]
    /\ lastSync' = now
    /\ obs' = [obs EXCEPT !.last = [NoStep EXCEPT !.by = "full", !.op = "list",
                                                  !.err = "net"],
                          !.streak = 0, !.settled = FALSE]
    /\ UNCHANGED <<header, saving, watcher,
                   watchEnabled, now, local, remote, index, diskIndex, pass, phase,
                   rawq, handling, pending, timers, events, edits>>

\* ListFiles fails: FullSync returns the error
FullSyncListFails ==
    /\ MayStartPass
    /\ faults < MaxFaults
    /\ faults' = faults + 1
    /\ passes' = passes + 1
    /\ daemon' = [daemon EXCEPT !.tickerC = 0]
    /\ obs' = [obs EXCEPT !.last = [NoStep EXCEPT !.by = "full", !.op = "list",
                                                  !.err = "net"],
                          !.streak = 0, !.settled = FALSE]
    /\ UNCHANGED <<header, saving, watcher,
                   watchEnabled, now, local, remote, index, lastSync, diskIndex, pass, phase,
                   rawq, handling, pending, timers, events, edits>>

\* a sync ticker that runWatch creates whatever cfg.Sync says
TickerFiresUnconfigured ==
    /\ phase = "running"
    /\ passes < MaxPasses
    /\ daemon' = [daemon EXCEPT !.tickerC = 1]
    /\ UNCHANGED <<header, saving, watcher, watchEnabled, now, local, remote, index,
                   lastSync, diskIndex, pass, passes, phase, rawq, handling, pending,
                   timers, events, edits, faults, obs>>

\* runWatch: "if cfg.Sync.Bidirectional && cfg.Sync.Interval > 0" there is a sync ticker.
\* It sends a tick; its channel holds one tick and a further one is dropped
TickerFires ==
    /\ phase = "running"
    /\ daemon.bidirectional /\ daemon.interval > 0
    /\ passes < MaxPasses
    /\ daemon' = [daemon EXCEPT !.tickerC = 1]
    /\ UNCHANGED <<header, saving, watcher, watchEnabled, now, local, remote, index,
                   lastSync, diskIndex, pass, passes, phase, rawq, handling, pending,
                   timers, events, edits, faults, obs>>

\* ListFiles, scanLocalFiles, and the union of their paths
FullSyncStart ==
    /\ MayStartPass
    /\ passes' = passes + 1
    /\ daemon' = [daemon EXCEPT !.tickerC = 0]
    /\ LET remoteIndex == ListFiles(remote)
           localFiles == scanLocalFiles(local)
       IN pass' = [pc |-> "loop", remoteIndex |-> remoteIndex, localFiles |-> localFiles,
                   todo |-> DOMAIN remoteIndex \cup DOMAIN localFiles,
                   seen |-> DOMAIN remoteIndex \cup DOMAIN localFiles]
    /\ obs' = [obs EXCEPT !.last = [NoStep EXCEPT !.by = "full", !.op = "list"],
                          !.passOps = {}, !.dirty = FALSE, !.settled = FALSE]
    /\ UNCHANGED <<header, saving, watcher,
                   watchEnabled, now, local, remote, index, lastSync, diskIndex, phase,
                   rawq, handling, pending, timers, events, edits, faults>>

\* one iteration of "for path := range allPaths", which begins with a look at ctx.Done()
SyncPath(path, net) ==
    /\ pass.pc = "loop"
    /\ path \in pass.todo
    /\ watcher.ctx = "live"
    /\ LET rem == Lookup(pass.remoteIndex, path)
           lcl == Lookup(pass.localFiles, path)
           indexed == Lookup(index, path)
           w == syncFile(World, path, rem, lcl, indexed, net)
       IN /\ net \/ w.err = "net"
          /\ local' = w.local
          /\ remote' = w.remote
          /\ index' = w.index
          /\ rawq' = Notify(rawq, w.notes)
          /\ faults' = IF net THEN faults ELSE faults + 1
          /\ obs' = [obs EXCEPT
                        !.last = [NoStep EXCEPT
                                     !.by = "full", !.path = path, !.op = "sync",
                                     !.rem = rem, !.lcl = lcl, !.idx = indexed,
                                     !.file = Lookup(local, path),
                                     !.had = Lookup(remote, path),
                                     !.ops = w.ops, !.err = w.err,
                                     !.after = Lookup(w.index, path),
                                     !.left = Lookup(w.local, path),
                                     !.served = Lookup(w.remote, path)],
                        !.passOps = @ \cup w.ops,
                        !.dirty = @ \/ w.err # "none",
                        !.deleted = Counted(w),
                        !.user = Kept(w)]
    /\ pass' = [pass EXCEPT !.todo = @ \ {path}]
    /\ UNCHANGED <<daemon, header, saving, watcher,
                   watchEnabled, now, lastSync, diskIndex, passes, phase, handling, pending,
                   timers, events, edits>>

\* LastSync = time.Now(), saveIndex, return nil
FullSyncFinish ==
    /\ pass.pc = "loop"
    /\ pass.todo = {}
    /\ lastSync' = now
    /\ diskIndex' = <<Marshal([version |-> header.version, user_id |-> header.user_id,
                               last_sync |-> now, files |-> index])>>
    /\ local' = Put(local, IndexPath, [content |-> IndexJSON, mtime |-> now])
    /\ rawq' = Notify(rawq, <<[name |-> IndexPath,
                               op |-> IF IndexPath \in DOMAIN local
                                      THEN "Write" ELSE "Create"]>>)
    /\ pass' = NoPass
    /\ obs' = [obs EXCEPT !.last = [NoStep EXCEPT
                                        !.by = "full", !.op = "save",
                                        !.stale = DOMAIN index \ pass.seen],
                          !.streak = IF obs.dirty THEN 0 ELSE Min(@ + 1, 2),
                          !.settled = ~obs.dirty]
    /\ UNCHANGED <<daemon, header, saving, watcher,
                   watchEnabled, now, remote, index, passes, phase, handling, pending, timers,
                   events, edits, faults>>

(***************************************************************************)
(* runWatch after the initial sync: the watcher and the event worker.      *)
(***************************************************************************)
EventsCap == 100
Debounce == 1

\* a runWatch that starts the watcher, the event worker and the ticker before its
\* initial FullSync
StartWatcherEarly ==
    /\ phase = "initial-syncing"
    /\ pass.pc = "idle"
    /\ phase' = "running"
    /\ daemon' = [daemon EXCEPT !.worker = IF watchEnabled THEN "running" ELSE @]
    /\ UNCHANGED <<header, saving, watcher,
                   watchEnabled, now, local, remote, index, lastSync, diskIndex, pass, passes,
                   rawq, handling, pending, timers, events, edits, faults, obs>>

\* a runWatch that returns the error of its initial sync instead of going on
StartWatcherAfterSuccess ==
    /\ phase = "initial-syncing"
    /\ passes > 0
    /\ pass.pc = "idle"
    /\ obs.last.err = "none"
    /\ phase' = "running"
    /\ daemon' = [daemon EXCEPT !.worker = IF watchEnabled THEN "running" ELSE @]
    /\ UNCHANGED <<header, saving, watcher,
                   watchEnabled, now, local, remote, index, lastSync, diskIndex, pass, passes,
                   rawq, handling, pending, timers, events, edits, faults, obs>>

\* runWatch after its initial FullSync has returned, with or without an error:
\* watcher.New, Watcher.Start, and the two goroutines of runWatch
StartWatcher ==
    /\ phase = "initial-syncing"
    /\ passes > 0
    /\ pass.pc = "idle"
    /\ phase' = "running"
    /\ daemon' = [daemon EXCEPT !.worker = IF watchEnabled THEN "running" ELSE @]
    /\ UNCHANGED <<header, saving, watcher,
                   watchEnabled, now, local, remote, index, lastSync, diskIndex, pass, passes,
                   rawq, handling, pending, timers, events, edits, faults, obs>>

\* fsnotify.Op to Operation, in the order of the switch
Operation(op) ==
    CASE op = "Create" -> "create"
      [] op = "Write" -> "write"
      [] op = "Remove" -> "remove"
      [] op = "Rename" -> "rename"
      [] OTHER -> ""

\* the goroutine of processEvents has not returned
Processing == watcher.doneCh = "open" /\ watcher.panic = "none"

\* processEvents reads a notification; handleFSEvent up to the debounceEvent call
HandleFSEvent ==
    /\ Watching
    /\ Processing
    /\ rawq # <<>>
    /\ handling = <<>>
    /\ rawq' = Tail(rawq)
    /\ LET event == Head(rawq) IN
       handling' = IF shouldIgnore(event.name) \/ Operation(event.op) = ""
                   THEN <<>>
                   ELSE <<[path |-> event.name, op |-> Operation(event.op), time |-> now]>>
    /\ UNCHANGED <<daemon, header, saving, watcher,
                   watchEnabled, now, local, remote, index, lastSync, diskIndex, pass, passes, phase,
                   pending, timers, events, edits, faults, obs>>

\* debounceEvent, under w.mu
DebounceEvent ==
    /\ handling # <<>>
    /\ Processing
    /\ LET event == handling[1]
           pe == [event |-> event, deadline |-> now + Debounce, st |-> "armed"]
           stopped == IF event.path \in DOMAIN pending
                      THEN {t \in timers : /\ t.st = "armed"
                                           /\ t.event = pending[event.path].event
                                           /\ t.deadline = pending[event.path].deadline}
                      ELSE {}
       IN /\ timers' = (timers \ stopped) \cup {pe}
          /\ pending' = Put(pending, event.path, [event |-> event, deadline |-> pe.deadline])
    /\ handling' = <<>>
    /\ UNCHANGED <<daemon, header, saving, watcher,
                   watchEnabled, now, local, remote, index, lastSync, diskIndex, pass, passes, phase,
                   rawq, events, edits, faults, obs>>

\* the runtime starts the callback of a timer that is due
TimerFire(t) ==
    /\ t \in timers
    /\ t.st = "armed"
    /\ now >= t.deadline
    /\ watcher.panic = "none"
    /\ timers' = (timers \ {t}) \cup {[t EXCEPT !.st = "fired"]}
    /\ UNCHANGED <<daemon, header, saving, watcher,
                   watchEnabled, now, local, remote, index, lastSync, diskIndex, pass, passes, phase,
                   rawq, handling, pending, events, edits, faults, obs>>

\* a callback that sends without a default case: it waits while the channel is full
TimerCallbackBlocks(t) ==
    /\ t \in timers
    /\ t.st = "fired"
    /\ watcher.events = "closed" \/ Len(events) < EventsCap
    /\ watcher.panic = "none"
    /\ timers' = timers \ {t}
    /\ pending' = Del(pending, t.event.path)
    /\ IF watcher.events = "closed"
       THEN /\ watcher' = [watcher EXCEPT !.panic = "send on closed channel"]
            /\ events' = events
       ELSE IF Len(events) < EventsCap
       THEN /\ watcher' = watcher
            /\ events' = Append(events, t.event)
       ELSE /\ watcher' = [watcher EXCEPT !.dropped = Min(@ + 1, 2)]
            /\ events' = events
    /\ UNCHANGED <<daemon, header, saving,
                   watchEnabled, now, local, remote, index, lastSync, diskIndex, pass, passes, phase,
                   rawq, handling, edits, faults, obs>>

\* the callback: delete(pendingEvents, path), then send or drop; a send on a closed
\* channel panics, also in a select with a default
TimerCallback(t) ==
    /\ t \in timers
    /\ t.st = "fired"
    /\ watcher.panic = "none"
    /\ timers' = timers \ {t}
    /\ pending' = Del(pending, t.event.path)
    /\ IF watcher.events = "closed"
       THEN /\ watcher' = [watcher EXCEPT !.panic = "send on closed channel"]
            /\ events' = events
       ELSE IF Len(events) < EventsCap
       THEN /\ watcher' = watcher
            /\ events' = Append(events, t.event)
       ELSE /\ watcher' = [watcher EXCEPT !.dropped = Min(@ + 1, 2)]
            /\ events' = events
    /\ UNCHANGED <<daemon, header, saving,
                   watchEnabled, now, local, remote, index, lastSync, diskIndex, pass, passes, phase,
                   rawq, handling, edits, faults, obs>>

\* an event worker that returns when HandleLocalChange returns an error
EventWorkerStopsOnError(net) ==
    /\ daemon.worker = "running"
    /\ events # <<>>
    /\ watcher.ctx = "live"
    /\ events' = Tail(events)
    /\ LET event == Head(events)
           w == HandleLocalChange(World, event, net)
       IN /\ net \/ w.err = "net"
          /\ local' = w.local
          /\ remote' = w.remote
          /\ index' = w.index
          /\ rawq' = Notify(rawq, w.notes)
          /\ faults' = IF net THEN faults ELSE faults + 1
          /\ daemon' = [daemon EXCEPT !.worker = IF w.err # "none" THEN "returned" ELSE @]
          /\ obs' = [obs EXCEPT
                        !.last = [NoStep EXCEPT
                                     !.by = "event", !.path = event.path, !.op = event.op,
                                     !.idx = Lookup(index, event.path),
                                     !.file = Lookup(local, event.path),
                                     !.had = Lookup(remote, event.path),
                                     !.ops = w.ops, !.err = w.err,
                                     !.after = Lookup(w.index, event.path),
                                     !.left = Lookup(w.local, event.path),
                                     !.served = Lookup(w.remote, event.path)],
                        !.settled = FALSE,
                        !.deleted = Counted(w),
                        !.user = Kept(w)]
    /\ UNCHANGED <<header, saving, watcher,
                   watchEnabled, now, lastSync, diskIndex, pass, passes, phase, handling, pending,
                   timers, edits>>

\* the event worker of runWatch: receive an event, HandleLocalChange
EventWorker(net) ==
    /\ daemon.worker = "running"
    /\ events # <<>>
    /\ watcher.ctx = "live"
    /\ events' = Tail(events)
    /\ LET event == Head(events)
           w == HandleLocalChange(World, event, net)
       IN /\ net \/ w.err = "net"
          /\ local' = w.local
          /\ remote' = w.remote
          /\ index' = w.index
          /\ rawq' = Notify(rawq, w.notes)
          /\ faults' = IF net THEN faults ELSE faults + 1
          /\ obs' = [obs EXCEPT
                        !.last = [NoStep EXCEPT
                                     !.by = "event", !.path = event.path, !.op = event.op,
                                     !.idx = Lookup(index, event.path),
                                     !.file = Lookup(local, event.path),
                                     !.had = Lookup(remote, event.path),
                                     !.ops = w.ops, !.err = w.err,
                                     !.after = Lookup(w.index, event.path),
                                     !.left = Lookup(w.local, event.path),
                                     !.served = Lookup(w.remote, event.path)],
                        !.settled = FALSE,
                        !.deleted = Counted(w),
                        !.user = Kept(w)]
    /\ UNCHANGED <<daemon, header, saving, watcher,
                   watchEnabled, now, lastSync, diskIndex, pass, passes, phase, handling, pending,
                   timers, edits>>

\* the capacity of the channel w.errors
ErrorsCap == 10

\* processEvents receives an error from fsWatcher.Errors: send on w.errors or, when
\* the channel is full, drop it with a warning
FSError ==
    /\ Watching
    /\ Processing
    /\ handling = <<>>
    /\ watcher.errors = "open"
    /\ faults < MaxFaults
    /\ faults' = faults + 1
    /\ watcher' = IF watcher.errq < ErrorsCap
                  THEN [watcher EXCEPT !.errq = @ + 1]
                  ELSE [watcher EXCEPT !.errDropped = Min(@ + 1, 2)]
    /\ UNCHANGED <<daemon, header, saving, watchEnabled, now, local, remote, index,
                   lastSync, diskIndex, pass, passes, phase, rawq, handling, pending,
                   timers, events, edits, obs>>

\* the event worker of runWatch receives from fileWatcher.Errors() and logs the error
ErrorWorker ==
    /\ daemon.worker = "running"
    /\ watcher.ctx = "live"
    /\ watcher.errors = "open"
    /\ watcher.errq > 0
    /\ watcher' = [watcher EXCEPT !.errq = @ - 1]
    /\ obs' = [obs EXCEPT !.last = [NoStep EXCEPT !.by = "errors", !.op = "error",
                                                  !.err = "watcher"]]
    /\ UNCHANGED <<daemon, header, saving, watchEnabled, now, local, remote, index,
                   lastSync, diskIndex, pass, passes, phase, rawq, handling, pending,
                   timers, events, edits, faults>>

\* the event worker returns: ctx.Done(), or a channel of the watcher is closed
WorkerReturns ==
    /\ daemon.worker = "running"
    /\ \/ watcher.ctx = "cancelled"
       \/ watcher.events = "closed"
       \/ watcher.errors = "closed"
    /\ daemon' = [daemon EXCEPT !.worker = "returned"]
    /\ UNCHANGED <<header, saving, watcher, watchEnabled, now, local, remote, index,
                   lastSync, diskIndex, pass, passes, phase, rawq, handling, pending,
                   timers, events, edits, faults, obs>>

\* the daemon: edits from outside are drawn while fewer than MaxDaemonEdits were made
MaxDaemonEdits == 1

DaemonEdit ==
    /\ edits < MaxDaemonEdits
    /\ \/ \E p \in Paths \ {IndexPath} : \E c \in EditContents(p) : UserWrite(p, c)
       \/ \E p \in Paths \ {IndexPath} : UserDelete(p)
       \/ \E p \in Paths \ {IndexPath} : \E c \in EditContents(p) : RemoteWrite(p, c)
       \/ \E p \in Paths \ {IndexPath} : RemoteDelete(p)

Next ==
    \/ Tick
    \/ DaemonEdit
    \/ TickerFires
    \/ FullSyncListFails
    \/ FullSyncStart
    \/ \E p \in Paths : \E net \in Outcomes : SyncPath(p, net)
    \/ FullSyncFinish
    \/ StartWatcher
    \/ HandleFSEvent
    \/ DebounceEvent
    \/ \E t \in timers : TimerFire(t)
    \/ \E t \in timers : TimerCallback(t)
    \/ \E net \in Outcomes : EventWorker(net)

Spec == Init /\ [][Next]_vars

(***************************************************************************)
(* The daemon with watch.enabled false: the initial pass and the periodic  *)
(* passes, no watcher.                                                     *)
(***************************************************************************)
InitSync ==
    /\ now = 0
    /\ local \in StartTrees
    /\ remote \in StartStores
    /\ index = EmptyMap
    /\ lastSync = 0
    /\ diskIndex = <<>>
    /\ pass = NoPass
    /\ passes = 0
    /\ phase = "initial-syncing"
    /\ watchEnabled = FALSE
    /\ rawq = <<>>
    /\ handling = <<>>
    /\ pending = EmptyMap
    /\ timers = {}
    /\ events = <<>>
    /\ edits = 0
    /\ faults = 0
    /\ header = NewHeader
    /\ saving = <<>>
    /\ watcher = NewWatcher
    /\ daemon = NewDaemon
    /\ obs = NoObs

NextSync ==
    \/ Tick
    \/ \E p \in {PathNotes, PathTmp} : \E c \in EditContents(p) : UserWrite(p, c)
    \/ \E p \in {PathNotes, PathTmp} : UserDelete(p)
    \/ \E p \in {PathNotes, PathTmp} : \E c \in EditContents(p) : RemoteWrite(p, c)
    \/ \E p \in {PathNotes, PathTmp} : RemoteDelete(p)
    \/ TickerFires
    \/ FullSyncListFails
    \/ FullSyncStart
    \/ \E p \in Paths : \E net \in Outcomes : SyncPath(p, net)
    \/ FullSyncFinish
    \/ StartWatcher

SpecSync == InitSync /\ [][NextSync]_vars


(***************************************************************************)
(* Properties of a full sync (checked under SpecSync).                     *)
(***************************************************************************)
Issued(name) == \E o \in obs.last.ops : o.op = name /\ o.path = obs.last.path

\* the last step was syncFile on a path of the pass
FullStep == obs.last.by = "full" /\ obs.last.op = "sync"

\* content that uploadFile sends: not empty, not binary
Textual(content) == Len(content) > 0 /\ ~isBinaryFile(content)

\* the file was there to upload when the step began
Uploadable(file) == file # <<>> /\ Textual(file[1].content)

\* a scan of both sides agrees on p
SidesAgree(p) ==
    LET scan == scanLocalFiles(local) IN
    /\ p \in DOMAIN scan <=> p \in DOMAIN remote
    /\ (p \in DOMAIN scan /\ p \in DOMAIN remote) => scan[p].hash = remote[p].hash

\* p holds empty or binary content on one of the sides
EmptyOrBinary(p) ==
    \/ p \in DOMAIN local /\ ~Textual(local[p].content)
    \/ p \in DOMAIN remote /\ ~Textual(remote[p].content)

\* C1 as stated: after a pass that ran to completion with no error and no change from
\* outside, the scans of both sides agree on every path whose content is neither empty
\* nor binary.
C1_ConvergenceEveryPath ==
    obs.settled => \A p \in Paths : ~EmptyOrBinary(p) => SidesAgree(p)

\* C1, amended: the same for every path that matches no ignore pattern and is not
\* under the sync directory.
C1_Convergence ==
    obs.settled =>
        \A p \in Paths :
            (~EmptyOrBinary(p) /\ ~shouldIgnore(p) /\ ~HasPrefix(p, SyncDir))
                => SidesAgree(p)

\* a pass has just brought the two sides together by a transfer
C1_Witness ==
    /\ obs.settled
    /\ PathNotes \in DOMAIN local /\ PathNotes \in DOMAIN remote
    /\ \E o \in obs.passOps : o.op \in {"PutFile", "WriteLocal"} /\ o.path = PathNotes

\* C3: syncFile on a path that is on exactly one side and has no index entry transfers
\* it (PutFile for a local file that can be uploaded, GetFile for a remote one); it
\* issues no DeleteFile and removes no local file.
C3_FirstTimeTransfer ==
    (FullStep /\ obs.last.idx = <<>> /\ (obs.last.rem = <<>>) # (obs.last.lcl = <<>>)) =>
        /\ ~Issued("DeleteFile")
        /\ ~Issued("RemoveLocal")
        /\ (obs.last.lcl # <<>> /\ Uploadable(obs.last.file)) => Issued("PutFile")
        /\ obs.last.rem # <<>> => Issued("GetFile")

\* C4: syncFile on an indexed path that is in the listing but not in the scan issues
\* DeleteFile; on an indexed path in the scan but not in the listing it removes the
\* local file; when that succeeds the index entry is gone, and nothing is transferred.
C4_DeletionMemory ==
    (FullStep /\ obs.last.idx # <<>>) =>
        /\ (obs.last.rem # <<>> /\ obs.last.lcl = <<>>) =>
              /\ Issued("DeleteFile")
              /\ obs.last.err = "none" => obs.last.after = <<>>
              /\ ~Issued("PutFile") /\ ~Issued("GetFile") /\ ~Issued("WriteLocal")
        /\ (obs.last.rem = <<>> /\ obs.last.lcl # <<>>) =>
              /\ obs.last.file # <<>> => Issued("RemoveLocal")
              /\ obs.last.left = <<>>
              /\ obs.last.after = <<>>
              /\ ~Issued("PutFile") /\ ~Issued("GetFile") /\ ~Issued("WriteLocal")


\* an indexed file that was deleted locally has just been deleted remotely
C4_Witness ==
    /\ FullStep /\ obs.last.idx # <<>>
    /\ obs.last.rem # <<>> /\ obs.last.lcl = <<>>
    /\ obs.last.file = <<>>
    /\ Issued("DeleteFile") /\ obs.last.err = "none"
    /\ obs.last.path \notin DOMAIN remote

\* C5: syncFile on a path that is on both sides with different hashes takes the local
\* file when local.modified >= remote.modified (no download; a PutFile if the file can
\* be uploaded) and the remote file only when remote.modified is later.
C5_TieBreakLocal ==
    (/\ FullStep /\ obs.last.rem # <<>> /\ obs.last.lcl # <<>>
     /\ obs.last.lcl[1].hash # obs.last.rem[1].hash) =>
        IF obs.last.lcl[1].modified >= obs.last.rem[1].modified
        THEN /\ ~Issued("GetFile") /\ ~Issued("WriteLocal") /\ ~Issued("RemoveLocal")
             /\ Uploadable(obs.last.file) => Issued("PutFile")
        ELSE /\ Issued("GetFile")
             /\ ~Issued("PutFile")

\* two different contents with the same timestamp, and the local one was uploaded
C5_Witness ==
    /\ FullStep /\ obs.last.rem # <<>> /\ obs.last.lcl # <<>>
    /\ obs.last.lcl[1].hash # obs.last.rem[1].hash
    /\ obs.last.lcl[1].modified = obs.last.rem[1].modified
    /\ Issued("PutFile") /\ obs.last.err = "none"

\* C6: when a pass has saved the index, the index holds no entry for a path that was
\* in neither the remote listing nor the local scan of the pass.
C6_NoStaleEntries ==
    (obs.last.by = "full" /\ obs.last.op = "save") => obs.last.stale = {}

(***************************************************************************)
(* Properties of the daemon with its watcher (checked under Spec).         *)
(***************************************************************************)
\* an operation of the given kinds was issued on p by the last step
Acted(kinds, p) == \E o \in obs.last.ops : o.op \in kinds /\ o.path = p

\* the watcher holds an event for p on its events channel
Emitted(p) == \E i \in 1..Len(events) : events[i].path = p

RemoteMutations == {"PutFile", "DeleteFile"}

Transfers == {"PutFile", "GetFile", "DeleteFile"}

ReconcilerActions ==
    {"PutFile", "GetFile", "DeleteFile", "WriteLocal", "RemoveLocal", "UpdateIndex"}

\* C2: a pass that follows a pass which ran to completion without error, with no change
\* from outside the daemon since that pass began, issues no PutFile and no DeleteFile.
C2_Idempotence ==
    obs.streak = 2 => \A o \in obs.passOps : o.op \notin RemoteMutations

\* C7: a path that matches an ignore pattern is never in the local scan, is never the
\* path of a reconciler action, and is never the path of an event the watcher emitted.
C7_IgnoreSubtree ==
    \A p \in Paths :
        shouldIgnore(p) =>
            /\ p \notin DOMAIN scanLocalFiles(local)
            /\ ~Acted(ReconcilerActions, p)
            /\ ~Emitted(p)

\* C8: a path under the sync directory is never in the local scan, is never the path of
\* an event the watcher emitted, is never the subject of PutFile, GetFile or DeleteFile,
\* and never has an index entry.
C8_ReservedIsolation ==
    \A p \in Paths :
        HasPrefix(p, SyncDir) =>
            /\ p \notin DOMAIN scanLocalFiles(local)
            /\ ~Emitted(p)
            /\ ~Acted(Transfers, p)
            /\ p \notin DOMAIN index

\* the last step called uploadFile: a create or write event, or the upload rows of
\* syncFile
UploadAttempt ==
    \/ obs.last.by = "event" /\ obs.last.op \in {"create", "write"}
    \/ FullStep /\ syncFileAction(obs.last.rem, obs.last.lcl, obs.last.idx) = "upload"

\* C9: every PutFile carries content that is neither empty nor binary; an upload of a
\* file that is empty or binary issues no PutFile and leaves the index entry of the path
\* as it was.
C9_BinaryEmptyExclusion ==
    /\ \A o \in obs.last.ops : o.op = "PutFile" => Textual(o.content)
    /\ (UploadAttempt /\ obs.last.file # <<>> /\ ~Textual(obs.last.file[1].content)) =>
          /\ ~Acted({"PutFile"}, obs.last.path)
          /\ obs.last.after = obs.last.idx

\* a write event for a binary file was handled, and nothing was sent
C9_Witness ==
    /\ obs.last.by = "event" /\ obs.last.op \in {"create", "write"}
    /\ obs.last.file # <<>> /\ isBinaryFile(obs.last.file[1].content)
    /\ obs.last.ops = {}

(***************************************************************************)
(* The watcher alone: Watcher.New and Watcher.Start have run on the tree,  *)
(* the user edits one file, and nothing reads the events channel.          *)
(***************************************************************************)
InitWatch ==
    /\ now = 0
    /\ local \in StartTrees
    /\ remote = EmptyMap
    /\ index = EmptyMap
    /\ lastSync = 0
    /\ diskIndex = <<>>
    /\ pass = NoPass
    /\ passes = 0
    /\ phase = "running"
    /\ watchEnabled = TRUE
    /\ rawq = <<>>
    /\ handling = <<>>
    /\ pending = EmptyMap
    /\ timers = {}
    /\ events = <<>>
    /\ edits = 0
    /\ faults = 0
    /\ header = NewHeader
    /\ saving = <<>>
    /\ watcher = NewWatcher
    /\ daemon = NewDaemon
    /\ obs = NoObs

NextWatch ==
    \/ Tick
    \/ \E c \in {TextH, TextS} : UserWrite(PathNotes, c)
    \/ UserDelete(PathNotes)
    \/ HandleFSEvent
    \/ DebounceEvent
    \/ \E t \in timers : TimerFire(t)
    \/ \E t \in timers : TimerCallback(t)

SpecWatch == InitWatch /\ [][NextWatch]_vars

\* the events handleFSEvent has stamped that the watcher has not sent yet
InFlight == {handling[i] : i \in 1..Len(handling)} \cup {t.event : t \in timers}

\* C10: an event on the events channel was sent no earlier than one debounce interval
\* after its raw event, and no other raw event for its path arrived within one debounce
\* interval of it: none was sent as a second event, none is still held by the watcher.
C10_DebounceCoalescing ==
    \A i \in 1..Len(events) :
        LET e == events[i] IN
        /\ now >= e.time + Debounce
        /\ \A j \in 1..Len(events) :
              (j # i /\ events[j].path = e.path) =>
                  \/ events[j].time >= e.time + Debounce
                  \/ e.time >= events[j].time + Debounce
        /\ \A f \in InFlight :
              f.path = e.path => f.time >= e.time + Debounce

(***************************************************************************)
(* Properties of the passes of the daemon and of single transfers.         *)
(***************************************************************************)
\* C11: a FullSync call begins only when no pass is running, and the daemon leaves its
\* initial sync (starting the ticker) only when the initial pass has returned.
C11_NoOverlappingPasses ==
    [][/\ passes' # passes => pass.pc = "idle"
       /\ phase' # phase => (pass.pc = "idle" /\ passes > 0)]_vars

\* a periodic pass is running
C11_Witness == phase = "running" /\ pass.pc = "loop" /\ passes > 1

\* the step is a FullSync call that returned the error of ListFiles
ListFailed ==
    /\ passes' = passes + 1
    /\ obs'.last.op = "list" /\ obs'.last.err = "net"

\* C17: a FullSync whose ListFiles fails changes no local file, no remote file, no index
\* entry, not last_sync and not the index file, and leaves the daemon as it was: no pass
\* running, the same phase.
C17_ListFailureNoEffect ==
    [][ListFailed =>
          /\ UNCHANGED <<local, remote, index, lastSync, diskIndex, phase>>
          /\ pass'.pc = "idle"
          /\ obs'.last.ops = {}]_vars

\* the daemon is running after a pass that failed at ListFiles when the clock had advanced
C17_Witness ==
    /\ obs.last.by = "full" /\ obs.last.op = "list" /\ obs.last.err = "net"
    /\ phase = "running" /\ now > lastSync

\* GetFile answered not-found in the last step
NotFound == Issued("GetFile") /\ obs.last.err = "none" /\ ~Issued("WriteLocal")

\* C18: when GetFile answers not-found for a path without an index entry, nothing
\* happens: the local file is as it was; with an index entry the local file is gone.
C18_NotFoundOnDownload ==
    (FullStep /\ NotFound) =>
        IF obs.last.idx = <<>>
        THEN ~Issued("RemoveLocal") /\ obs.last.left = obs.last.file
        ELSE obs.last.left = <<>>

\* the last step uploaded its path: PutFile was issued and uploadFile returned nil
Uploaded == Issued("PutFile") /\ obs.last.err = "none"

\* C19 as stated: after an upload the index entry holds the hash, the size and the
\* modified time the server echoed, with source "local".
C19_IndexEchoesServer ==
    Uploaded =>
        /\ obs.last.after # <<>> /\ obs.last.served # <<>>
        /\ obs.last.after[1].hash = obs.last.served[1].hash
        /\ obs.last.after[1].size = obs.last.served[1].size
        /\ obs.last.after[1].modified = obs.last.served[1].modified
        /\ obs.last.after[1].source = "local"

\* C19, amended: the hash and the size are the server's, the modified time is the
\* modification time of the local file.
C19_IndexAfterUpload ==
    Uploaded =>
        /\ obs.last.after # <<>> /\ obs.last.served # <<>> /\ obs.last.left # <<>>
        /\ obs.last.after[1].hash = obs.last.served[1].hash
        /\ obs.last.after[1].size = obs.last.served[1].size
        /\ obs.last.after[1].modified = obs.last.left[1].mtime
        /\ obs.last.after[1].source = "local"

\* a write event was uploaded after the clock had advanced past the file's time
C19_Witness ==
    /\ Uploaded /\ obs.last.by = "event"
    /\ obs.last.left # <<>> /\ obs.last.served # <<>>
    /\ obs.last.left[1].mtime < obs.last.served[1].modified

\* the last step of a pass downloaded its path
Downloaded == FullStep /\ Issued("WriteLocal") /\ obs.last.err = "none"

SavedEntry ==
    [hash |-> calculateHash(TextH), size |-> Len(TextH), modified |-> 0,
     source |-> "both", synced_at |-> 0]

\* the document a former run saved
SavedFile == Marshal([NewIndex EXCEPT !.files = [p \in {PathNotes} |-> SavedEntry]])

\* that document cut off before its end
TornFile == [SavedFile EXCEPT !.whole = FALSE]

\* a document in which "last_sync" is not a timestamp; the other fields can be read
MistypedFile == [SavedFile EXCEPT !.bad = {"last_sync"}, !.version = 2]

StartIndexFiles == {<<>>, <<SavedFile>>, <<TornFile>>, <<MistypedFile>>}

\* the index in memory, as one SyncIndex
MemoryIndex ==
    [version |-> header.version, user_id |-> header.user_id, last_sync |-> lastSync,
     files |-> index]

InitIndex ==
    /\ now = 0
    /\ local \in StartTrees
    /\ remote \in StartStores
    /\ index = EmptyMap
    /\ lastSync = 0
    /\ diskIndex \in StartIndexFiles
    /\ pass = NoPass
    /\ passes = 0
    /\ phase = "constructing"
    /\ watchEnabled = TRUE
    /\ rawq = <<>>
    /\ handling = <<>>
    /\ pending = EmptyMap
    /\ timers = {}
    /\ events = <<>>
    /\ edits = 0
    /\ faults = 0
    /\ header = NewHeader
    /\ saving = <<>>
    /\ watcher = NewWatcher
    /\ daemon = NewDaemon
    /\ obs = NoObs

\* NewManager: the index is built, then loadIndex; its error is logged as a warning
NewManagerLoads ==
    /\ phase = "constructing"
    /\ phase' = "initial-syncing"
    /\ LET r == loadIndex(diskIndex, NewIndex) IN
       /\ index' = r.index.files
       /\ lastSync' = r.index.last_sync
       /\ header' = [version |-> r.index.version, user_id |-> r.index.user_id]
       /\ obs' = [obs EXCEPT !.last = [NoStep EXCEPT
                                           !.by = "new", !.op = "load",
                                           !.err = IF r.err THEN "io" ELSE "none"]]
    /\ UNCHANGED <<daemon, saving, watcher, watchEnabled, now, local, remote, diskIndex, pass,
                   passes, rawq, handling, pending, timers, events, edits, faults>>

\* FullSync after its loop: LastSync = time.Now(), and saveIndex marshals under RLock
FullSyncMarshal ==
    /\ pass.pc = "loop"
    /\ pass.todo = {}
    /\ lastSync' = now
    /\ saving' = <<[data |-> Marshal([MemoryIndex EXCEPT !.last_sync = now]),
                    prior |-> diskIndex]>>
    /\ pass' = [pass EXCEPT !.pc = "saving"]
    /\ UNCHANGED <<daemon, header, watcher, watchEnabled, now, local, remote, index, diskIndex,
                   passes, phase, rawq, handling, pending, timers, events, edits, faults,
                   obs>>

\* os.WriteFile opens index.json with O_TRUNC
SaveTruncate ==
    /\ pass.pc = "saving"
    /\ diskIndex' = <<Truncated>>
    /\ pass' = [pass EXCEPT !.pc = "writing"]
    /\ UNCHANGED <<daemon, header, saving, watcher, watchEnabled, now, local, remote, index,
                   lastSync, passes, phase, rawq, handling, pending, timers, events, edits,
                   faults, obs>>

\* os.WriteFile writes the data (or fails: FullSync logs the error) and FullSync
\* returns nil
SaveWrite(ok) ==
    /\ pass.pc = "writing"
    /\ diskIndex' = IF ok THEN <<saving[1].data>> ELSE diskIndex
    /\ faults' = IF ok THEN faults ELSE faults + 1
    /\ local' = Put(local, IndexPath, [content |-> IF ok THEN IndexJSON ELSE Empty,
                                       mtime |-> now])
    /\ rawq' = Notify(rawq, <<[name |-> IndexPath,
                               op |-> IF IndexPath \in DOMAIN local
                                      THEN "Write" ELSE "Create"]>>)
    /\ saving' = <<>>
    /\ pass' = NoPass
    /\ obs' = [obs EXCEPT !.last = [NoStep EXCEPT
                                        !.by = "full", !.op = "save",
                                        !.err = IF ok THEN "none" ELSE "io",
                                        !.stale = DOMAIN index \ pass.seen],
                          !.streak = IF obs.dirty THEN 0 ELSE Min(@ + 1, 2),
                          !.settled = ~obs.dirty]
    /\ UNCHANGED <<daemon, header, watcher, watchEnabled, now, remote, index, lastSync, passes,
                   phase, handling, pending, timers, events, edits>>

NextIndex ==
    \/ NewManagerLoads
    \/ Tick
    \/ edits < MaxDaemonEdits /\ UserWrite(PathNotes, TextS)
    \/ TickerFires
    \/ FullSyncStart
    \/ \E p \in Paths : SyncPath(p, TRUE)
    \/ FullSyncMarshal
    \/ SaveTruncate
    \/ \E ok \in Outcomes : SaveWrite(ok)
    \/ StartWatcher
    \/ HandleFSEvent
    \/ DebounceEvent
    \/ \E t \in timers : TimerFire(t)
    \/ \E t \in timers : TimerCallback(t)
    \/ EventWorker(TRUE)

SpecIndex == InitIndex /\ [][NextIndex]_vars

\* a document that json.Unmarshal returns an error for
Corrupt(disk) == disk # <<>> /\ (~disk[1].whole \/ disk[1].bad # {})

\* the step in which FullSync returns after its save
SaveReturns == pass.pc = "writing" /\ pass'.pc = "idle"

\* C12: when FullSync returns, loading the index file yields the index in memory:
\* version, user_id, last_sync and files.
C12_IndexRoundTrip ==
    [][SaveReturns =>
          LET r == loadIndex(diskIndex', NewIndex) IN
          /\ ~r.err
          /\ r.index = [version |-> header'.version, user_id |-> header'.user_id,
                        last_sync |-> lastSync', files |-> index']]_vars

\* C13: while saveIndex runs, the index file holds either what it held when the call
\* began or the whole new document.
C13_CrashSafeSave ==
    saving # <<>> => (diskIndex = saving[1].prior \/ diskIndex = <<saving[1].data>>)

\* C14: NewManager on a tree without an index file, or with a corrupt one, yields the
\* empty index at version 1 (and logs the error of a corrupt file), and a save that
\* succeeds leaves a document that loads without error.
C14_LoadNeverBlocks ==
    [][/\ (phase = "constructing" /\ phase' # phase /\ (diskIndex = <<>> \/ Corrupt(diskIndex)))
            => /\ index' = EmptyMap /\ lastSync' = 0 /\ header' = NewHeader
               /\ Corrupt(diskIndex) <=> obs'.last.err = "io"
       /\ (SaveReturns /\ obs'.last.err = "none") => ~Corrupt(diskIndex')]_vars

(***************************************************************************)
(* The watcher with its end: Watcher.Stop taken statement by statement,    *)
(* the return of processEvents, and the cancelling of the context.         *)
(***************************************************************************)
MaxStops == 2

\* cancel() of the context Watcher.Start was given
CtxCancel ==
    /\ watcher.ctx = "live"
    /\ watcher.panic = "none"
    /\ watcher' = [watcher EXCEPT !.ctx = "cancelled"]
    /\ UNCHANGED <<daemon, header, saving, watchEnabled, now, local, remote, index, lastSync,
                   diskIndex, pass, passes, phase, rawq, handling, pending, timers, events,
                   edits, faults, obs>>

\* processEvents returns from its select on ctx.Done() or stopCh; defer close(w.doneCh)
ProcessEventsReturns ==
    /\ Processing
    /\ handling = <<>>
    /\ watcher.ctx = "cancelled" \/ watcher.stopCh = "closed"
    /\ watcher' = [watcher EXCEPT !.doneCh = "closed"]
    /\ UNCHANGED <<daemon, header, saving, watchEnabled, now, local, remote, index, lastSync,
                   diskIndex, pass, passes, phase, rawq, handling, pending, timers, events,
                   edits, faults, obs>>

\* Stop is called: close(w.stopCh), which panics on a closed channel
StopClose ==
    /\ watcher.stop = "none"
    /\ watcher.panic = "none"
    /\ watcher.calls < MaxStops
    /\ watcher' = IF watcher.stopCh = "closed"
                  THEN [watcher EXCEPT !.panic = "close of closed channel"]
                  ELSE [watcher EXCEPT !.stopCh = "closed", !.stop = "waiting"]
    /\ UNCHANGED <<daemon, header, saving, watchEnabled, now, local, remote, index, lastSync,
                   diskIndex, pass, passes, phase, rawq, handling, pending, timers, events,
                   edits, faults, obs>>

\* the timers Stop finds in pendingEvents and that timer.Stop() keeps from firing
Cancelled ==
    {t \in timers : /\ t.st = "armed"
                    /\ t.event.path \in DOMAIN pending
                    /\ t.event = pending[t.event.path].event
                    /\ t.deadline = pending[t.event.path].deadline}

\* <-w.doneCh, then under w.mu: timer.Stop() for each pending event, pendingEvents = nil
StopCancel ==
    /\ watcher.stop = "waiting"
    /\ watcher.doneCh = "closed"
    /\ watcher.panic = "none"
    /\ timers' = timers \ Cancelled
    /\ pending' = EmptyMap
    /\ watcher' = [watcher EXCEPT !.stop = "closing"]
    /\ UNCHANGED <<daemon, header, saving, watchEnabled, now, local, remote, index, lastSync,
                   diskIndex, pass, passes, phase, rawq, handling, events, edits, faults,
                   obs>>

\* close(w.events), close(w.errors), fsWatcher.Close(); Stop returns
StopCloseChannels ==
    /\ watcher.stop = "closing"
    /\ watcher.panic = "none"
    /\ watcher' = [watcher EXCEPT !.events = "closed", !.errors = "closed",
                                  !.stop = "none", !.calls = @ + 1]
    /\ UNCHANGED <<daemon, header, saving, watchEnabled, now, local, remote, index, lastSync,
                   diskIndex, pass, passes, phase, rawq, handling, pending, timers, events,
                   edits, faults, obs>>

NextStop ==
    \/ Tick
    \/ \E c \in {TextH, TextS} : UserWrite(PathNotes, c)
    \/ UserDelete(PathNotes)
    \/ HandleFSEvent
    \/ DebounceEvent
    \/ \E t \in timers : TimerFire(t)
    \/ \E t \in timers : TimerCallback(t)
    \/ CtxCancel
    \/ ProcessEventsReturns
    \/ StopClose
    \/ StopCancel
    \/ StopCloseChannels

SpecStop == InitWatch /\ [][NextStop]_vars

\* a step of a call of Stop on a watcher on which Stop has returned before
StopAgain ==
    /\ watcher.calls > 0
    /\ watcher.stop = "none"
    /\ \/ watcher'.stop # "none"
       \/ watcher'.calls # watcher.calls
       \/ watcher'.panic = "close of closed channel"

\* C15: a call of Stop on a watcher that was stopped before returns without a panic
\* and changes nothing: not the channels, not the timers, not the pending events.
C15_StopIdempotent ==
    [][StopAgain => /\ watcher'.panic = "none"
                    /\ watcher'.stop = "none"
                    /\ UNCHANGED <<timers, pending, events>>
                    /\ \A f \in {"stopCh", "doneCh", "events", "errors"} :
                          watcher'[f] = watcher[f]]_vars

\* C16: once Stop has returned, no timer is left, armed or with its callback still to
\* run, and the events and errors channels are closed; and never is an event sent on
\* the closed events channel.
C16_CleanStop ==
    /\ watcher.panic # "send on closed channel"
    /\ watcher.calls > 0 => /\ timers = {}
                            /\ watcher.events = "closed"
                            /\ watcher.errors = "closed"

(***************************************************************************)
(* Properties of the loop of a full sync: one path against the others.     *)
(***************************************************************************)
\* the step is one iteration of the loop of FullSync
LoopIteration == pass.pc = "loop" /\ pass'.todo # pass.todo

\* the step is the return of a FullSync that went through its loop
PassReturns == pass.pc = "loop" /\ pass'.pc = "idle"

Iteration(w, path, net) ==
    syncFile(w, path, Lookup(pass.remoteIndex, path), Lookup(pass.localFiles, path),
             Lookup(w.index, path), net)

\* the local file, the remote file and the index entry of path in world w
Of(w, path) == <<Lookup(w.local, path), Lookup(w.remote, path), Lookup(w.index, path)>>

Stores(w) == <<w.local, w.remote, w.index>>

\* C29: in a pass, the iteration for a path changes nothing of another path, and two
\* iterations taken in either order leave the same local files, remote files and index.
C29_OrderIndependence ==
    pass.pc = "loop" =>
        \A p \in pass.todo : \A q \in pass.todo \ {p} : \A np \in BOOLEAN : \A nq \in BOOLEAN :
            /\ Of(Iteration(World, p, np), q) = Of(World, q)
            /\ Stores(Iteration(Iteration(World, p, np), q, nq))
                  = Stores(Iteration(Iteration(World, q, nq), p, np))

\* a pass has two paths to visit: one to take into the index, one to delete remotely
C29_Witness ==
    /\ pass.pc = "loop"
    /\ \E p \in pass.todo : \E q \in pass.todo \ {p} :
          /\ Of(Iteration(World, p, TRUE), p) # Of(World, p)
          /\ Of(Iteration(World, q, TRUE), q) # Of(World, q)
          /\ q \in DOMAIN index

\* the last step was syncFile on a path with the same hash on both sides
EqualContent ==
    /\ FullStep /\ obs.last.rem # <<>> /\ obs.last.lcl # <<>>
    /\ obs.last.lcl[1].hash = obs.last.rem[1].hash

RemoveHandled == obs.last.by = "event" /\ obs.last.op = "remove"

\* C21: for a file that was on both sides and indexed when the user deleted it, event
\* handling and passes together send DeleteFile to the server at most once (a call that
\* failed in transport is not counted), and exactly once when the remove event has
\* been handled without error; the handling of the event removes the index entry when
\* DeleteFile succeeded and keeps it when it failed; and a pass that starts when the
\* file has been deleted remotely does not visit the path.
C21_LocalDeletion ==
    /\ obs.deleted # <<>> =>
          /\ obs.deleted[1].calls <= 1
          /\ (RemoveHandled /\ obs.last.err = "none"
                  /\ obs.last.path = obs.deleted[1].path) =>
                obs.deleted[1].calls = 1
    /\ RemoveHandled =>
          /\ Issued("DeleteFile")
          /\ obs.last.after = IF obs.last.err = "none" THEN <<>> ELSE obs.last.idx
    /\ (/\ obs.deleted # <<>> /\ obs.deleted[1].calls > 0
        /\ obs.deleted[1].path \notin DOMAIN remote
        /\ obs.last.by = "full" /\ obs.last.op = "list" /\ pass.pc = "loop") =>
          obs.deleted[1].path \notin pass.todo

MapWith(m, p, ptr) == IF ptr = <<>> THEN Del(m, p) ELSE Put(m, p, ptr[1])

\* the world as it was when the last step began, as far as its path goes
Before ==
    [World EXCEPT !.local = MapWith(@, obs.last.path, obs.last.file),
                  !.remote = MapWith(@, obs.last.path, obs.last.had),
                  !.index = MapWith(@, obs.last.path, obs.last.idx)]

\* a pass is in its loop, the last step handled an event for a path the pass has still
\* to visit, and the path is as that step left it
EventInPass ==
    /\ pass.pc = "loop"
    /\ obs.last.by = "event" /\ obs.last.err = "none"
    /\ obs.last.path \in pass.todo
    /\ Of(World, obs.last.path) = <<obs.last.left, obs.last.served, obs.last.after>>

\* the event is handled, then the pass observes the path and acts
EventThenPass ==
    Of(syncFile(World, obs.last.path, Lookup(ListFiles(remote), obs.last.path),
                Lookup(scanLocalFiles(local), obs.last.path),
                Lookup(index, obs.last.path), TRUE), obs.last.path)

\* the pass acts on the path as it was before the event, then the event is handled
PassThenEvent ==
    Of(HandleLocalChange(Iteration(Before, obs.last.path, TRUE),
                         [path |-> obs.last.path, op |-> obs.last.op], TRUE),
       obs.last.path)

\* C26: when a pass visits a path right after an event for the path was handled during
\* the pass, the local file, the remote file and the index entry of the path end as in
\* one of the two serial orders.
C26_EventsSerialised ==
    [][(/\ EventInPass
        /\ pass'.todo = pass.todo \ {obs.last.path}
        /\ obs'.last.by = "full" /\ obs'.last.err = "none") =>
            <<Lookup(local', obs.last.path), Lookup(remote', obs.last.path),
              Lookup(index', obs.last.path)>> \in {EventThenPass, PassThenEvent}]_vars

(***************************************************************************)
(* The ticks of the sync ticker against a running pass.                    *)
(***************************************************************************)
\* C27: a tick of the sync ticker that fires while a pass is running is dropped: while
\* the daemon runs a pass, no tick waits in the channel of the ticker to start a
\* further pass once this one has returned.
C27_DroppedTicks == (phase = "running" /\ pass.pc # "idle") => daemon.tickerC = 0

(***************************************************************************)
(* runWatch from its first line to its return: the configuration, the      *)
(* shutdown signal, cancel(), the deferred calls; and a rename by the user.*)
(***************************************************************************)
PathTodo == <<"todo", ".md">>

RunPaths == Paths \cup {PathTodo}

\* cfg.Sync.Bidirectional, cfg.Sync.Interval (0: no periodic sync; the default)
RunConfigs ==
    {[NewDaemon EXCEPT !.bidirectional = b, !.interval = i] : b \in BOOLEAN, i \in {0, 30}}

\* NewManager has run on a tree that holds notes.md and no index file
InitRun ==
    /\ now = 0
    /\ local = [p \in {PathNotes} |-> [content |-> TextH, mtime |-> 0]]
    /\ remote = EmptyMap
    /\ index = EmptyMap
    /\ lastSync = 0
    /\ diskIndex = <<>>
    /\ pass = NoPass
    /\ passes = 0
    /\ phase = "initial-syncing"
    /\ watchEnabled \in BOOLEAN
    /\ rawq = <<>>
    /\ handling = <<>>
    /\ pending = EmptyMap
    /\ timers = {}
    /\ events = <<>>
    /\ edits = 0
    /\ faults = 0
    /\ header = NewHeader
    /\ saving = <<>>
    /\ watcher = NewWatcher
    /\ daemon \in RunConfigs
    /\ obs = NoObs

\* os.Rename(p, q) by the user: the file keeps its content and its modification time.
\* fsnotify reports Rename with the old name and Create with the new name
UserRename(p, q) ==
    /\ edits < MaxDaemonEdits
    /\ p \in DOMAIN local
    /\ q \notin DOMAIN local
    /\ edits' = edits + 1
    /\ local' = Put(Del(local, p), q, local[p])
    /\ rawq' = Notify(rawq, <<[name |-> p, op |-> "Rename"], [name |-> q, op |-> "Create"]>>)
    /\ obs' = [Disturbed(p) EXCEPT
                  !.user = Put(Put(@, p, "deleted"), q,
                               IF phase = "running" THEN "created" ELSE "written")]
    /\ UNCHANGED <<daemon, header, saving, watcher, watchEnabled, now, remote, index,
                   lastSync, diskIndex, pass, passes, phase, handling, pending, timers,
                   events, faults>>

\* SIGINT or SIGTERM: signal.Notify puts it into sigCh, which holds one signal
Signal ==
    /\ daemon.sigCh = "none"
    /\ phase # "returned"
    /\ daemon' = [daemon EXCEPT !.sigCh = "pending"]
    /\ UNCHANGED <<header, saving, watcher, watchEnabled, now, local, remote, index,
                   lastSync, diskIndex, pass, passes, phase, rawq, handling, pending,
                   timers, events, edits, faults, obs>>

\* runWatch, set up and waiting: <-sigCh, cancel()
Shutdown ==
    /\ phase = "running"
    /\ daemon.sigCh = "pending"
    /\ daemon' = [daemon EXCEPT !.sigCh = "taken"]
    /\ watcher' = [watcher EXCEPT !.ctx = "cancelled"]
    /\ phase' = "stopping"
    /\ UNCHANGED <<header, saving, watchEnabled, now, local, remote, index, lastSync,
                   diskIndex, pass, passes, rawq, handling, pending, timers, events,
                   edits, faults, obs>>

\* FullSync: ctx.Done() at the top of an iteration of the loop; return ctx.Err()
FullSyncCancelled ==
    /\ pass.pc = "loop"
    /\ pass.todo # {}
    /\ watcher.ctx = "cancelled"
    /\ phase # "returned"
    /\ pass' = NoPass
    /\ obs' = [obs EXCEPT !.last = [NoStep EXCEPT !.by = "full", !.op = "cancel",
                                                  !.err = "ctx"],
                          !.streak = 0, !.settled = FALSE]
    /\ UNCHANGED <<daemon, header, saving, watcher, watchEnabled, now, local, remote,
                   index, lastSync, diskIndex, passes, phase, rawq, handling, pending,
                   timers, events, edits, faults>>

\* time.Sleep(500ms) is over, "return nil": the deferred calls begin, syncTicker.Stop()
ReturnBegins ==
    /\ phase = "stopping"
    /\ phase' = "returning"
    /\ daemon' = [daemon EXCEPT !.tickerC = 0]
    /\ UNCHANGED <<header, saving, watcher, watchEnabled, now, local, remote, index,
                   lastSync, diskIndex, pass, passes, rawq, handling, pending, timers,
                   events, edits, faults, obs>>

\* the deferred fileWatcher.Stop(), deferred only when the watcher was started
DeferredStop ==
    /\ phase = "returning"
    /\ watchEnabled
    /\ watcher.calls = 0
    /\ StopClose

\* the deferred cancel(); runWatch has returned and the process ends
Returned ==
    /\ phase = "returning"
    /\ watchEnabled => watcher.calls > 0
    /\ watcher.stop = "none"
    /\ watcher.panic = "none"
    /\ phase' = "returned"
    /\ UNCHANGED <<daemon, header, saving, watcher, watchEnabled, now, local, remote,
                   index, lastSync, diskIndex, pass, passes, rawq, handling, pending,
                   timers, events, edits, faults, obs>>

\* the process of the daemon is there
InProcess == phase # "returned"

NextRun ==
    \/ Tick
    \/ edits < MaxDaemonEdits /\ UserWrite(PathNotes, TextS)
    \/ Signal
    \/ TickerFires
    \/ FullSyncListFails
    \/ FullSyncStart
    \/ \E p \in Paths : \E net \in Outcomes : SyncPath(p, net)
    \/ FullSyncCancelled
    \/ InProcess /\ FullSyncFinish
    \/ StartWatcher
    \/ HandleFSEvent
    \/ InProcess /\ DebounceEvent
    \/ \E t \in timers : InProcess /\ TimerFire(t)
    \/ \E t \in timers : InProcess /\ TimerCallback(t)
    \/ \E net \in Outcomes : EventWorker(net)
    \/ FSError
    \/ ErrorWorker
    \/ InProcess /\ WorkerReturns
    \/ Shutdown
    \/ ReturnBegins
    \/ DeferredStop
    \/ Watching /\ ProcessEventsReturns
    \/ StopCancel
    \/ StopCloseChannels
    \/ Returned

SpecRun == InitRun /\ [][NextRun]_vars

(***************************************************************************)
(* The daemon with periodic sync off (sync.interval 0) and the watcher on: *)
(* after the initial pass only event handling talks to the server.  The    *)
(* user renames files.                                                     *)
(***************************************************************************)
InitRename ==
    /\ now = 0
    /\ local \in {[p \in {PathNotes} |-> [content |-> c, mtime |-> 0]] : c \in {TextH, TextS}}
    /\ remote = EmptyMap
    /\ index = EmptyMap
    /\ lastSync = 0
    /\ diskIndex = <<>>
    /\ pass = NoPass
    /\ passes = 0
    /\ phase = "initial-syncing"
    /\ watchEnabled = TRUE
    /\ rawq = <<>>
    /\ handling = <<>>
    /\ pending = EmptyMap
    /\ timers = {}
    /\ events = <<>>
    /\ edits = 0
    /\ faults = 0
    /\ header = NewHeader
    /\ saving = <<>>
    /\ watcher = NewWatcher
    /\ daemon = [NewDaemon EXCEPT !.interval = 0]
    /\ obs = NoObs

NextRename ==
    \/ Tick
    \/ \E q \in {PathTodo, PathTmp} : UserRename(PathNotes, q)
    \/ FullSyncListFails
    \/ FullSyncStart
    \/ \E p \in RunPaths : \E net \in Outcomes : SyncPath(p, net)
    \/ FullSyncFinish
    \/ StartWatcher
    \/ HandleFSEvent
    \/ DebounceEvent
    \/ \E t \in timers : TimerFire(t)
    \/ \E t \in timers : TimerCallback(t)
    \/ \E net \in Outcomes : EventWorker(net)

SpecRename == InitRename /\ [][NextRename]_vars

(***************************************************************************)
(* A rename in the watched tree.                                           *)
(***************************************************************************)
\* the event worker has handled an event for notes.md, the path every rename of
\* SpecRename takes the file away from
OldPathHandled == obs.last.by = "event" /\ obs.last.path = PathNotes

\* the event worker has handled an event for todo.md, the new path of a rename
NewPathHandled == obs.last.by = "event" /\ obs.last.path = PathTodo

\* C22: when the user renames p to q, the event delivered for p is a remove event and its
\* handling issues DeleteFile(p); the event delivered for q is a create event and its
\* handling uploads q (PutFile) when the file is there with content uploadFile sends.
C22_RenameAsRemoveCreate ==
    /\ OldPathHandled => obs.last.op = "remove" /\ Issued("DeleteFile")
    /\ NewPathHandled => /\ obs.last.op = "create"
                         /\ Uploadable(obs.last.file) => Issued("PutFile")

(***************************************************************************)
(* The life of runWatch: initial sync, running, shutdown.                  *)
(***************************************************************************)
\* the initial FullSync has returned and runWatch has not gone on yet
InitialSyncReturned == phase = "initial-syncing" /\ passes > 0 /\ pass.pc = "idle"

PathVisited == pass.pc = "loop" /\ pass'.pc = "loop" /\ pass'.todo # pass.todo

\* a shutdown signal has arrived during the initial sync, or cancel() has been called
StopRequested ==
    \/ daemon.sigCh = "pending" /\ phase = "initial-syncing"
    \/ watcher.ctx = "cancelled"

\* C24: after a shutdown signal has arrived during the initial full sync, and after
\* cancel() in the running state, a FullSync in flight handles no further path; and
\* when runWatch has returned the context is cancelled and the watcher, if there is one,
\* is stopped: processEvents has returned and the channels are closed.
C24_Shutdown ==
    [][/\ StopRequested => ~PathVisited
       /\ phase' = "returned"
            => /\ watcher'.ctx = "cancelled"
               /\ watchEnabled => /\ watcher'.calls = 1
                                   /\ watcher'.doneCh = "closed"
                                   /\ watcher'.events = "closed"]_vars

\* cfg.Sync asks for periodic sync
Periodic == daemon.bidirectional /\ daemon.interval > 0

\* C25: a FullSync other than the initial one starts only when sync.bidirectional is true
\* and sync.interval is positive; with watch.enabled false there is no watcher (nothing
\* of it is created, started or stopped), no event, and no call of HandleLocalChange; and
\* in every configuration the daemon is past initial-syncing only after a FullSync.
C25_ConfigurationGating ==
    /\ [][passes' # passes => (phase = "initial-syncing" /\ passes = 0) \/ Periodic]_vars
    /\ [](~watchEnabled => /\ [watcher EXCEPT !.ctx = "live"] = NewWatcher
                           /\ rawq = <<>> /\ handling = <<>> /\ pending = EmptyMap
                           /\ timers = {} /\ events = <<>>
                           /\ obs.last.by # "event")
    /\ [](phase # "initial-syncing" => passes > 0)

\* periodic sync off and the watcher off: the initial sync has run, the daemon is
\* running, the clock has moved and the user has written a file
C25_Witness ==
    /\ ~watchEnabled /\ ~Periodic
    /\ phase = "running" /\ passes = 1
    /\ now > 0 /\ edits > 0
    /\ PathNotes \in DOMAIN remote /\ local[PathNotes].content # remote[PathNotes].content

(***************************************************************************)
(* The initial sync against the watcher and the ticker.                    *)
(***************************************************************************)
\* the initial FullSync has not returned
InitialSyncPending == passes = 0 \/ (passes = 1 /\ pass.pc = "loop")

\* C40: until the initial FullSync has returned the daemon is in initial-syncing, no
\* notification has been taken in, no event is queued or has been handled, and no tick is
\* there; a further pass starts only in the running state, when no pass is running.
C40_InitialSyncFirst ==
    /\ [](InitialSyncPending
            => /\ phase = "initial-syncing"
               /\ rawq = <<>> /\ handling = <<>> /\ timers = {} /\ events = <<>>
               /\ obs.last.by # "event"
               /\ daemon.tickerC = 0)
    /\ [][passes' # passes /\ passes > 0 => phase = "running" /\ pass.pc = "idle"]_vars

\* the daemon has handled an event and has started a periodic pass
C40_Witness == phase = "running" /\ passes > 1 /\ obs.last.by = "event" /\ pass.pc = "loop"

(***************************************************************************)
(* The timers of the watcher and the map pendingEvents.                    *)
(***************************************************************************)
\* the timers whose callback can still send an event for path p
Deliverable(p) == {t \in timers : t.event.path = p}

\* C39: for every path at most one timer can still send its event; it is the timer that
\* pendingEvents records for the path, and an entry of pendingEvents has its timer.
C39_PendingTimerBookkeeping ==
    \A p \in Paths :
        /\ Cardinality(Deliverable(p)) <= 1
        /\ \A t \in Deliverable(p) : /\ p \in DOMAIN pending
                                      /\ pending[p].event = t.event
                                      /\ pending[p].deadline = t.deadline
        /\ p \in DOMAIN pending => Deliverable(p) # {}

(***************************************************************************)
(* Local files that the scan of a pass leaves out.                         *)
(***************************************************************************)
\* the last step was syncFile in a pass that nothing from outside has disturbed since
\* its scan: the file of the path is what it was at scan time
QuietStep == FullStep /\ ~obs.dirty

\* C36: in a full sync, DeleteFile(p) is issued only when no file was at p on the local
\* filesystem at scan time.
C36_RemoteDeletionNeedsAbsence == (QuietStep /\ Issued("DeleteFile")) => obs.last.file = <<>>

\* C37: in a full sync, a download writes to a local path only when no file was there at
\* scan time or the file that was there was part of the scan result.
C37_NoOverwriteUnobserved ==
    (QuietStep /\ Issued("WriteLocal")) => (obs.last.file = <<>> \/ obs.last.lcl # <<>>)

(***************************************************************************)
(* The event worker and the errors it meets.                               *)
(***************************************************************************)
\* the event worker is in its select with the context live and the channels open
WorkerWaits ==
    /\ daemon.worker = "running"
    /\ watcher.ctx = "live"
    /\ watcher.events = "open" /\ watcher.errors = "open"

\* C31: the event worker returns only when the context is cancelled or a channel of the
\* watcher is closed, never because HandleLocalChange returned an error or an error came
\* on the error channel; while it waits, an event in the events channel can be received
\* and handled and an error in the error channel can be received.
C31_EventWorkerSurvivesErrors ==
    /\ [][daemon.worker = "running" /\ daemon'.worker # "running"
            => \/ watcher.ctx = "cancelled"
               \/ watcher.events = "closed"
               \/ watcher.errors = "closed"]_vars
    /\ [](WorkerWaits /\ events # <<>> => ENABLED EventWorker(TRUE))
    /\ [](WorkerWaits /\ watcher.errq > 0 => ENABLED ErrorWorker)

\* HandleLocalChange has returned an error, the worker is waiting and the next event is
\* in the channel
C31_Witness ==
    /\ obs.last.by = "event" /\ obs.last.err # "none"
    /\ WorkerWaits /\ events # <<>>

(***************************************************************************)
(* The watcher with nothing reading its channels: the user has written     *)
(* notes.md again and again, one debounce interval apart, and the events   *)
(* channel is full or all but full; so is the error channel.               *)
(***************************************************************************)
\* n events for notes.md, sent one debounce interval after one another, the last one
\* a debounce interval ago
Backlog(n) ==
    [i \in 1..n |-> [path |-> PathNotes, op |-> "write", time |-> (i - n - 1) * Debounce]]

InitDeliver ==
    /\ now = 0
    /\ local = [p \in {PathNotes} |-> [content |-> TextH, mtime |-> 0]]
    /\ remote = EmptyMap
    /\ index = EmptyMap
    /\ lastSync = 0
    /\ diskIndex = <<>>
    /\ pass = NoPass
    /\ passes = 0
    /\ phase = "running"
    /\ watchEnabled = TRUE
    /\ rawq = <<>>
    /\ handling = <<>>
    /\ pending = EmptyMap
    /\ timers = {}
    /\ events \in {Backlog(n) : n \in {EventsCap - 1, EventsCap}}
    /\ edits = 0
    /\ faults = 0
    /\ header = NewHeader
    /\ saving = <<>>
    /\ watcher \in {[NewWatcher EXCEPT !.errq = n] : n \in {ErrorsCap - 1, ErrorsCap}}
    /\ daemon = NewDaemon
    /\ obs = NoObs

NextDeliver ==
    \/ Tick
    \/ \E c \in {TextH, TextS} : UserWrite(PathNotes, c)
    \/ UserDelete(PathNotes)
    \/ HandleFSEvent
    \/ DebounceEvent
    \/ \E t \in timers : TimerFire(t)
    \/ \E t \in timers : TimerCallback(t)
    \/ FSError

SpecDeliver == InitDeliver /\ [][NextDeliver]_vars

\* the step is the callback of a timer
CallbackRuns == \E t \in timers : t.st = "fired" /\ t \notin timers'

\* C32: the events channel never holds more than its capacity of 100 and the error
\* channel never more than 10; a timer callback that has started can always run to
\* its end, and when it finds the events channel full the channel stays as it is (the
\* event is dropped); processEvents can always take the next notification, debounce the
\* event it holds and take an error, whatever the channels hold.
C32_BoundedDelivery ==
    /\ [](Len(events) <= EventsCap /\ watcher.errq <= ErrorsCap)
    /\ [](\A t \in timers : t.st = "fired" => ENABLED TimerCallback(t))
    /\ [][CallbackRuns /\ Len(events) = EventsCap => events' = events]_vars
    /\ [](Processing /\ handling = <<>> /\ rawq # <<>> => ENABLED HandleFSEvent)
    /\ [](Processing /\ handling # <<>> => ENABLED DebounceEvent)
    /\ [](Processing /\ handling = <<>> /\ faults < MaxFaults => ENABLED FSError)

\* an event and an error have been dropped with a warning; the events channel is full
C32_Witness ==
    /\ watcher.dropped > 0 /\ watcher.errDropped > 0
    /\ Len(events) = EventsCap /\ watcher.errq = ErrorsCap

(***************************************************************************)
(* isBinaryFile on buffers around its limits: the initial pass of a daemon *)
(* over a tree whose notes.md holds such a buffer.                         *)
(***************************************************************************)
\* n bytes: "A", but ctl bytes of value byte from position from on, and 0x00 at
\* position nul (no 0x00 when nul is 0)
Buffer(n, ctl, byte, from, nul) ==
    [i \in 1..n |-> IF i = nul THEN 0
                    ELSE IF i >= from /\ i < from + ctl THEN byte
                    ELSE 65]

\* lengths around the prefix; counts around 0.3 of 10 and of 1024; control bytes,
\* white space and the first printable byte; in the prefix and after it
Buffers ==
    {Buffer(n, ctl, byte, from, nul) :
        n \in {0, 1, 10, BinaryCheckLen, BinaryCheckLen + 1, BinaryCheckLen + 6},
        ctl \in {0, 3, 4, 307, 308},
        byte \in {1, 9, 10, 13, 31, 32},
        from \in {1, BinaryCheckLen + 1},
        nul \in {0, 1, BinaryCheckLen, BinaryCheckLen + 1}}

\* ten bytes, three of them control bytes: a ratio of exactly 0.3
ThreeOfTen == Buffer(10, 3, 1, 1, 0)

InitClassify ==
    /\ now = 0
    /\ local \in {(PathNotes :> [content |-> b, mtime |-> 0])
                      @@ (PathTodo :> [content |-> ThreeOfTen, mtime |-> 0]) : b \in Buffers}
    /\ remote = EmptyMap
    /\ index = EmptyMap
    /\ lastSync = 0
    /\ diskIndex = <<>>
    /\ pass = NoPass
    /\ passes = 0
    /\ phase = "initial-syncing"
    /\ watchEnabled = FALSE
    /\ rawq = <<>>
    /\ handling = <<>>
    /\ pending = EmptyMap
    /\ timers = {}
    /\ events = <<>>
    /\ edits = 0
    /\ faults = 0
    /\ header = NewHeader
    /\ saving = <<>>
    /\ watcher = NewWatcher
    /\ daemon = NewDaemon
    /\ obs = NoObs

NextClassify ==
    \/ FullSyncStart
    \/ \E p \in RunPaths : SyncPath(p, TRUE)
    \/ FullSyncFinish

SpecClassify == InitClassify /\ [][NextClassify]_vars

\* the rule: not empty and, in the first min(len, 1024) bytes, a 0x00 or more than 0.3
\* of the bytes below 32 and not 9, 10 or 13
ClassifierRule(b) ==
    /\ Len(b) > 0
    /\ LET prefix == SubSeq(b, 1, Min(Len(b), 1024))
           control == {i \in DOMAIN prefix : prefix[i] < 32 /\ prefix[i] \notin {9, 10, 13}}
       IN \/ \E i \in DOMAIN prefix : prefix[i] = 0
          \/ 10 * Cardinality(control) > 3 * Len(prefix)

\* C33: isBinaryFile is the rule, on every file of the tree; the bytes after the first
\* 1024 do not change its result; and the scan of a pass holds the files the rule calls
\* text.
C33_ClassifierRule ==
    /\ \A p \in DOMAIN local :
          LET b == local[p].content IN
          /\ isBinaryFile(b) <=> ClassifierRule(b)
          /\ isBinaryFile(b) <=> isBinaryFile(SubSeq(b, 1, Min(Len(b), 1024)))
    /\ pass.pc = "loop" =>
          \A p \in {PathNotes, PathTodo} :
              p \in DOMAIN pass.localFiles <=> ~ClassifierRule(local[p].content)

\* the scan has taken notes.md, which holds 0x00 after its first 1024 bytes, and
\* todo.md, whose ratio of control bytes is exactly 0.3
C33_Witness ==
    /\ pass.pc = "loop"
    /\ {PathNotes, PathTodo} \subseteq DOMAIN pass.localFiles
    /\ LET b == local[PathNotes].content IN
       Len(b) > 1024 /\ \E i \in DOMAIN b : b[i] = 0
    /\ LET b == local[PathTodo].content IN
       Len(b) = 10 /\ Cardinality({i \in DOMAIN b : b[i] = 1}) = 3

(***************************************************************************)
(* A server whose listing holds a key that leads out of the local root.    *)
(* The map local holds a file under the relPath it was written with, which *)
(* for such a key is a file outside the root.                              *)
(***************************************************************************)
\* "../evil.md"
PathEscape == <<"..", Sep, "evil", ".md">>

EscapePaths == {PathNotes, PathEscape}

InitEscape ==
    /\ now = 0
    /\ local \in StartTrees
    /\ remote \in {[p \in {PathEscape} |-> ServerEntry(c, 0)] : c \in {TextH, TextS}}
    /\ index = EmptyMap
    /\ lastSync = 0
    /\ diskIndex = <<>>
    /\ pass = NoPass
    /\ passes = 0
    /\ phase = "initial-syncing"
    /\ watchEnabled = FALSE
    /\ rawq = <<>>
    /\ handling = <<>>
    /\ pending = EmptyMap
    /\ timers = {}
    /\ events = <<>>
    /\ edits = 0
    /\ faults = 0
    /\ header = NewHeader
    /\ saving = <<>>
    /\ watcher = NewWatcher
    /\ daemon = NewDaemon
    /\ obs = NoObs

NextEscape ==
    \/ Tick
    \/ \E p \in EscapePaths : \E c \in {TextH, TextS} : RemoteWrite(p, c)
    \/ \E p \in EscapePaths : RemoteDelete(p)
    \/ TickerFires
    \/ FullSyncListFails
    \/ FullSyncStart
    \/ \E p \in Paths \cup EscapePaths : \E net \in Outcomes : SyncPath(p, net)
    \/ FullSyncFinish
    \/ StartWatcher

SpecEscape == InitEscape /\ [][NextEscape]_vars

\* the path is relative and has no ".." component
Relative(path) ==
    LET parts == Split(path) IN
    \A i \in 1..Len(parts) : parts[i] # <<"..">> /\ (i = 1 => parts[i] # <<>>)

\* C34: every local path the reconciler writes to or deletes lies inside the local
\* root, also when the listing of the server holds a key with a ".." component; and such
\* a key never becomes an index key.
C34_PathsInsideRoot ==
    /\ \A o \in obs.last.ops : o.op \in {"WriteLocal", "RemoveLocal"} => Inside(o.path)
    /\ \A p \in DOMAIN index : Relative(p)

(***************************************************************************)
(* The files of the user against the changes of the reconciler.            *)
(***************************************************************************)
\* the user created the file of p while the daemon was running, and it has not been
\* deleted on the server since
FreshlyCreated(p) == p \in DOMAIN obs.user /\ obs.user[p] = "created"

\* C35: no step of the reconciler, in a pass or in event handling, removes the local
\* file of a path whose file the user created while the daemon was running and that
\* has not been deleted on the server.
C35_NoLossOfFreshFile ==
    (obs.last.by \in {"full", "event"} /\ Issued("RemoveLocal"))
        => ~FreshlyCreated(obs.last.path)

\* C38: event handling issues PutFile or DeleteFile for a path other than the index file
\* only when the user has changed the local file of that path: a file the reconciler has
\* written or removed in a pass is not sent back.
C38_NoEcho ==
    (/\ obs.last.by = "event"
     /\ obs.last.path # IndexPath
     /\ Issued("PutFile") \/ Issued("DeleteFile"))
        => obs.last.path \in DOMAIN obs.user
====
